---- MODULE Spec2Model ----
(***************************************************************************)
(* State-machine model of the arrOSt kernel substrate:                     *)
(*   - the fixed-layout block filesystem (kernel/src/fs/diskfs.rs) over    *)
(*     the sector interface of kernel/src/storage/mod.rs;                  *)
(*   - the blocking submit path of the virtio drivers (blk, net TX, snd    *)
(*     control queue) and their initialization;                            *)
(*   - the interrupt-fed SPSC rings of the keyboard and the mouse;         *)
(*   - the boot frame allocator and the bump heap (kernel/src/mem/mod.rs); *)
(*   - the cooperative scheduler (kernel/src/proc/mod.rs).                 *)
(* Each subsystem has its own specification over the shared variables.     *)
(***************************************************************************)
EXTENDS Integers, Sequences, FiniteSets, TLC

VARIABLES
    disk,           \* virtio-blk medium: sector number -> sector content
    fs,             \* DiskFs fields: mounted, total_sectors, next_free_sector,
                    \* file_count, entries, dir_bytes
    storage_ready,  \* storage::is_ready()
    lastOp,         \* the last filesystem call: arguments and result
    failedOps,      \* some filesystem call has returned Err so far
    faultsLeft,     \* sector requests the device may still fail
    vq,             \* one virtqueue and its driver: kind, avail.idx, used.idx,
                    \* last_used_idx, the status byte and the request memory
    dev,            \* the device behind it: entries fetched, request in service
    call,           \* the driver call in progress: pc, expected index, spins
    vqLast,         \* the last driver call that returned
    q,              \* one SPSC ring: kind, slots, head, tail, overflow counter
    popper,         \* the consumer's pop in progress: pc and its locals
    qHist,          \* push calls made, items accepted, items popped
    alloc,          \* BootInfoFrameAllocator fields
    frames,         \* the frames allocate_frame has returned, in order
    drv,            \* one virtio driver: kind, device status register, ready
    drvLast,        \* the last driver entry point that returned
    sched,          \* Scheduler fields: cursor and the task table
    procLast,       \* the last run_once call: its tick, the table before, the
                    \* slot it ran
    net,            \* NetState fields: addresses, counters, mailbox, DHCP
                    \* state, the pending TCP exchange and the pending ping
    netLast,        \* the last network entry point that returned: its
                    \* arguments, its result and the frames it transmitted
    netHist,        \* what the peers have sent so far: the datagrams since the
                    \* last udp_recv, the byte stream of the TCP peer
    irq,            \* the locks the main loop holds, the interrupt handler
                    \* that is running and its position
    heap,           \* BumpAllocator fields
    heapLast,       \* the last call of the global allocator and the live
                    \* allocations
    sys,            \* the task that makes system calls and the Scheduler's
                    \* SyscallStats
    sysLast,        \* the last system call: number, result, the task before
    boot,           \* kernel_main: its position, the subsystems initialized
                    \* so far and what each reported
    txq,            \* one submission in progress: the writes made so far to
                    \* the descriptors, the avail ring and the notify register
    uq,             \* the used ring of the net RX queue or the snd TX queue,
                    \* the driver fields its consumer updates, the last poll
    arpc,           \* the ARP cache of NetState, the frames received so far, the last
                    \* frame and the cache before it
    pcm,            \* the playback path of the sound driver: slot table, counters, FIFO
                    \* fill, started flag, TX used ring, the last call and the last trim
    mouse           \* the packet assembler of the PS/2 mouse: position, counters, the
                    \* indices of the event queue, the last call

fsVars == <<disk, fs, storage_ready, lastOp, failedOps, faultsLeft>>
vqVars == <<vq, dev, call, vqLast>>
qVars == <<q, popper, qHist>>
memVars == <<alloc, frames>>
drvVars == <<drv, drvLast>>
procVars == <<sched, procLast>>
netVars == <<net, netLast, netHist>>
irqVars == <<irq>>
heapVars == <<heap, heapLast>>
sysVars == <<sys, sysLast>>
bootVars == <<boot>>
txqVars == <<txq>>
uqVars == <<uq>>
arpVars == <<arpc>>
pcmVars == <<pcm>>
mouseVars == <<mouse>>
extVars == <<sysVars, bootVars, txqVars, uqVars, arpVars, pcmVars, mouseVars>>
restVars == <<procVars, netVars, irqVars, heapVars, extVars>>

\* What a step of one subsystem leaves alone.
notFs == <<vqVars, qVars, memVars, drvVars, restVars>>
notVq == <<fsVars, qVars, memVars, drvVars, restVars>>
notQ == <<fsVars, vqVars, memVars, drvVars, restVars>>
notMem == <<fsVars, vqVars, qVars, drvVars, restVars>>
notDrv == <<fsVars, vqVars, qVars, memVars, restVars>>
coreVars == <<fsVars, vqVars, qVars, memVars, drvVars>>
notProc == <<coreVars, netVars, irqVars, heapVars, extVars>>
notNet == <<coreVars, procVars, irqVars, heapVars, extVars>>
notIrq == <<coreVars, procVars, netVars, heapVars, extVars>>
notHeap == <<coreVars, procVars, netVars, irqVars, extVars>>
baseVars == <<coreVars, procVars, netVars, irqVars, heapVars>>
notSys == <<baseVars, bootVars, txqVars, uqVars, arpVars, pcmVars, mouseVars>>
notBoot == <<baseVars, sysVars, txqVars, uqVars, arpVars, pcmVars, mouseVars>>
notTxq == <<baseVars, sysVars, bootVars, uqVars, arpVars, pcmVars, mouseVars>>
notUq == <<baseVars, sysVars, bootVars, txqVars, arpVars, pcmVars, mouseVars>>
notArp == <<baseVars, sysVars, bootVars, txqVars, uqVars, pcmVars, mouseVars>>
notPcm == <<baseVars, sysVars, bootVars, txqVars, uqVars, arpVars, mouseVars>>
notMouse == <<baseVars, sysVars, bootVars, txqVars, uqVars, arpVars, pcmVars>>

(***************************************************************************)
(* Geometry.  The sector size, the directory size and the volume size are  *)
(* scaled down; the layout rules are the program's.                        *)
(***************************************************************************)
SECTOR_SIZE == 2
MAX_FILES == 2
MAX_FILE_NAME_BYTES == 48
MAX_FILE_BYTES == SECTOR_SIZE
\* A directory entry is 72 bytes: [used, name_len, size] in bytes 0..7,
\* start_sector in 8..15, sector_count in 16..23, the name in 24..71.  A
\* sector boundary (a multiple of 8) falls only between these four groups
\* or inside the name, so the directory is modelled as a flat array of
\* groups ("slots"), four per entry, cut into sectors of DirSectorSlots.
DIR_ENTRY_SLOTS == 4
DirSectorSlots == 6
DataSectors == 2
MaxFaults == 1

DivCeil(a, b) == (a + b - 1) \div b
Min(a, b) == IF a < b THEN a ELSE b

DIR_SLOTS == DIR_ENTRY_SLOTS * MAX_FILES
DIR_SECTORS == DivCeil(DIR_SLOTS, DirSectorSlots)
SUPERBLOCK_SECTOR == 0
DIR_START_SECTOR == 1
DATA_START_SECTOR == DIR_START_SECTOR + DIR_SECTORS
CapacitySectors == DATA_START_SECTOR + DataSectors
MAGIC == "AROSTFS1"
VERSION == 1

(***************************************************************************)
(* Sector contents.                                                        *)
(***************************************************************************)
ZeroSector == [kind |-> "zero"]

ZeroHdr == [used |-> 0, name_len |-> 0, size |-> 0]

\* The all-zero value of directory slot p (0-based position in dir_bytes).
ZeroSlot(p) ==
    CASE p % DIR_ENTRY_SLOTS = 0 -> ZeroHdr
      [] p % DIR_ENTRY_SLOTS = 3 -> <<>>
      [] OTHER -> 0

ZeroDir == [p \in 0..(DIR_SLOTS - 1) |-> ZeroSlot(p)]

\* name[..len] of a zero-filled name array holding `bytes`.
PadTake(bytes, len) == [i \in 1..len |-> IF i <= Len(bytes) THEN bytes[i] ELSE 0]

DiskEntryEmpty ==
    [used |-> FALSE, name |-> <<>>, name_len |-> 0, size_bytes |-> 0,
     start_sector |-> 0, sector_count |-> 0]

EmptyEntries == [i \in 1..MAX_FILES |-> DiskEntryEmpty]

DiskFsNew ==
    [mounted |-> FALSE, total_sectors |-> 0, next_free_sector |-> DATA_START_SECTOR,
     file_count |-> 0, entries |-> EmptyEntries, dir_bytes |-> ZeroDir]

(***************************************************************************)
(* storage::read_sector / write_sector.  A call context c carries the      *)
(* filesystem object, the disk, the number of sector requests issued by    *)
(* the running call and its error ("" while it has not failed).  The fault *)
(* f = [at, applied] makes request number f.at fail at the device          *)
(* (IoTimeout / DeviceFailure); a failed write may or may not have reached *)
(* the medium.                                                             *)
(***************************************************************************)
NoFault == [at |-> 0, applied |-> FALSE]

Ctx(f0, d0) == [fs |-> f0, disk |-> d0, io |-> 0, err |-> "", faulted |-> FALSE]

Fail(c, e) == [c EXCEPT !.err = e]

write_sector(c, sector, content, f) ==
    IF ~storage_ready \/ sector >= CapacitySectors
    THEN Fail(c, "StorageIo")
    ELSE IF c.io + 1 = f.at
    THEN [c EXCEPT !.io = @ + 1, !.err = "StorageIo", !.faulted = TRUE,
                   !.disk = IF f.applied THEN [@ EXCEPT ![sector] = content] ELSE @]
    ELSE [c EXCEPT !.io = @ + 1, !.disk = [@ EXCEPT ![sector] = content]]

\* The context after the request, and the sector it returned.
read_sector(c, sector, f) ==
    IF ~storage_ready \/ sector >= CapacitySectors
    THEN [c |-> Fail(c, "StorageIo"), data |-> ZeroSector]
    ELSE IF c.io + 1 = f.at
    THEN [c |-> [c EXCEPT !.io = @ + 1, !.err = "StorageIo", !.faulted = TRUE],
          data |-> ZeroSector]
    ELSE [c |-> [c EXCEPT !.io = @ + 1], data |-> c.disk[sector]]

(***************************************************************************)
(* Sector encodings.                                                       *)
(***************************************************************************)
SuperSector(f0) ==
    [kind |-> "super", magic |-> MAGIC, version |-> VERSION,
     max_files |-> MAX_FILES, max_file_bytes |-> MAX_FILE_BYTES,
     dir_sectors |-> DIR_SECTORS, next_free_sector |-> f0.next_free_sector,
     file_count |-> f0.file_count, total_sectors |-> f0.total_sectors]

\* The superblock fields a sector's bytes decode to.
SuperView(sec) ==
    IF sec.kind = "super" THEN sec
    ELSE [kind |-> "super", magic |-> "", version |-> 0, max_files |-> 0,
          max_file_bytes |-> 0, dir_sectors |-> 0, next_free_sector |-> 0,
          file_count |-> 0, total_sectors |-> 0]

\* EncodeDir without the size field (bytes 4..7 of an entry left zero).
EncodeDirNoSize(entries) ==
    [p \in 0..(DIR_SLOTS - 1) |->
        LET e == entries[(p \div DIR_ENTRY_SLOTS) + 1]
            k == p % DIR_ENTRY_SLOTS
        IN  IF ~e.used THEN ZeroSlot(p)
            ELSE CASE k = 0 -> [used |-> 1, name_len |-> e.name_len, size |-> 0]
                   [] k = 1 -> e.start_sector
                   [] k = 2 -> e.sector_count
                   [] OTHER -> PadTake(e.name, e.name_len)]

\* dir_bytes as persist_metadata fills it from the entry array.
EncodeDir(entries) ==
    [p \in 0..(DIR_SLOTS - 1) |->
        LET e == entries[(p \div DIR_ENTRY_SLOTS) + 1]
            k == p % DIR_ENTRY_SLOTS
        IN  IF ~e.used THEN ZeroSlot(p)
            ELSE CASE k = 0 -> [used |-> 1, name_len |-> e.name_len, size |-> e.size_bytes]
                   [] k = 1 -> e.start_sector
                   [] k = 2 -> e.sector_count
                   [] OTHER -> PadTake(e.name, e.name_len)]

\* Directory sector idx cut from dir_bytes: sector_buf zero-filled, then the
\* slice [start, end) copied in.
DirSector(dir_bytes, idx) ==
    LET start == idx * DirSectorSlots
        end == Min(start + DirSectorSlots, DIR_SLOTS)
    IN  [kind |-> "dir",
         slots |-> [j \in 1..DirSectorSlots |->
                      IF start + j - 1 < end THEN dir_bytes[start + j - 1]
                      ELSE ZeroSlot(start + j - 1)]]

\* The directory slots a sector's bytes decode to (sector idx of the table).
DirView(sec, idx) ==
    IF sec.kind = "dir" THEN sec.slots
    ELSE [j \in 1..DirSectorSlots |-> ZeroSlot(idx * DirSectorSlots + j - 1)]

\* DataSector with the copy one byte short: the last byte of the slice stays 0.
DataSectorShort(data, idx) ==
    LET start == idx * SECTOR_SIZE
        end == Min(start + SECTOR_SIZE, Len(data))
    IN  [kind |-> "data",
         bytes |-> [j \in 1..SECTOR_SIZE |->
                      IF start + j < end THEN data[start + j] ELSE 0]]

DataSector(data, idx) ==
    LET start == idx * SECTOR_SIZE
        end == Min(start + SECTOR_SIZE, Len(data))
    IN  [kind |-> "data",
         bytes |-> [j \in 1..SECTOR_SIZE |->
                      IF start + j <= end THEN data[start + j] ELSE 0]]

DataView(sec) ==
    IF sec.kind = "data" THEN sec.bytes ELSE [j \in 1..SECTOR_SIZE |-> 0]

(***************************************************************************)
(* DiskFs: metadata persistence and mount.                                 *)
(***************************************************************************)
RECURSIVE PersistDirSectors(_, _, _)
PersistDirSectors(c, sector_idx, f) ==
    IF sector_idx >= DIR_SECTORS \/ c.err /= "" THEN c
    ELSE PersistDirSectors(
            write_sector(c, DIR_START_SECTOR + sector_idx,
                         DirSector(c.fs.dir_bytes, sector_idx), f),
            sector_idx + 1, f)

persist_metadata(c, f) ==
    IF ~storage_ready THEN Fail(c, "StorageUnavailable")
    ELSE LET c1 == write_sector(c, SUPERBLOCK_SECTOR, SuperSector(c.fs), f)
         IN  IF c1.err /= "" THEN c1
             ELSE PersistDirSectors(
                    [c1 EXCEPT !.fs.dir_bytes = EncodeDir(c1.fs.entries)], 0, f)

format(c, f) ==
    LET c1 == persist_metadata(
                [c EXCEPT !.fs.entries = EmptyEntries, !.fs.dir_bytes = ZeroDir,
                          !.fs.file_count = 0,
                          !.fs.next_free_sector = DATA_START_SECTOR], f)
    IN  IF c1.err /= "" THEN c1 ELSE [c1 EXCEPT !.fs.mounted = TRUE]

\* The first loop of load_directory: read the directory sectors into dir_bytes.
RECURSIVE LoadDirSectors(_, _, _)
LoadDirSectors(c, sector_idx, f) ==
    IF sector_idx >= DIR_SECTORS \/ c.err /= "" THEN c
    ELSE LET r == read_sector(c, DIR_START_SECTOR + sector_idx, f)
             start == sector_idx * DirSectorSlots
             end == Min(start + DirSectorSlots, DIR_SLOTS)
             slots == DirView(r.data, sector_idx)
         IN  IF r.c.err /= "" THEN r.c
             ELSE LoadDirSectors(
                    [r.c EXCEPT !.fs.dir_bytes =
                        [p \in 0..(DIR_SLOTS - 1) |->
                            IF start <= p /\ p < end THEN slots[p - start + 1] ELSE @[p]]],
                    sector_idx + 1, f)

\* The entry slot `index` (1-based) of dir_bytes decodes to, or "DiskCorrupt".
DecodeEntry(dir_bytes, total_sectors, index) ==
    LET base == (index - 1) * DIR_ENTRY_SLOTS
        hdr == dir_bytes[base]
        start_sector == dir_bytes[base + 1]
        sector_count == dir_bytes[base + 2]
        end == start_sector + sector_count
    IN  IF hdr.used = 0 THEN [err |-> "", entry |-> DiskEntryEmpty]
        ELSE IF hdr.name_len = 0 \/ hdr.name_len > MAX_FILE_NAME_BYTES
        THEN [err |-> "DiskCorrupt", entry |-> DiskEntryEmpty]
        ELSE IF sector_count > 0
                /\ (start_sector < DATA_START_SECTOR \/ end > total_sectors
                    \/ hdr.size > sector_count * SECTOR_SIZE)
        THEN [err |-> "DiskCorrupt", entry |-> DiskEntryEmpty]
        ELSE IF sector_count = 0 /\ hdr.size /= 0
        THEN [err |-> "DiskCorrupt", entry |-> DiskEntryEmpty]
        ELSE [err |-> "",
              entry |-> [used |-> TRUE,
                         name |-> PadTake(dir_bytes[base + 3], hdr.name_len),
                         name_len |-> hdr.name_len, size_bytes |-> hdr.size,
                         start_sector |-> start_sector, sector_count |-> sector_count]]

\* The second loop of load_directory: rebuild the entry array, stopping at
\* the first corrupt entry.
RECURSIVE LoadEntries(_, _)
LoadEntries(c, index) ==
    IF index > MAX_FILES
    THEN [c EXCEPT !.fs.file_count =
            Cardinality({i \in 1..MAX_FILES : c.fs.entries[i].used})]
    ELSE LET d == DecodeEntry(c.fs.dir_bytes, c.fs.total_sectors, index)
         IN  IF d.err /= "" THEN Fail(c, d.err)
             ELSE LoadEntries([c EXCEPT !.fs.entries[index] = d.entry], index + 1)

load_directory(c, f) ==
    LET c1 == LoadDirSectors([c EXCEPT !.fs.dir_bytes = ZeroDir], 0, f)
    IN  IF c1.err /= "" THEN c1
        ELSE LoadEntries([c1 EXCEPT !.fs.entries = EmptyEntries], 1)

mount_or_format(c, f) ==
    IF ~storage_ready THEN Fail(c, "StorageUnavailable")
    ELSE IF c.fs.total_sectors <= DATA_START_SECTOR THEN Fail(c, "StorageNoSpace")
    ELSE LET r == read_sector(c, SUPERBLOCK_SECTOR, f)
             sb == SuperView(r.data)
         IN  IF r.c.err /= "" THEN r.c
             ELSE IF sb.magic /= MAGIC THEN format(r.c, f)
             ELSE IF sb.version /= VERSION THEN Fail(r.c, "DiskCorrupt")
             ELSE IF sb.next_free_sector < DATA_START_SECTOR
                     \/ sb.next_free_sector > r.c.fs.total_sectors
             THEN Fail(r.c, "DiskCorrupt")
             ELSE LET c2 == load_directory(
                              [r.c EXCEPT !.fs.next_free_sector = sb.next_free_sector,
                                          !.fs.file_count = sb.file_count], f)
                  IN  IF c2.err /= "" THEN c2 ELSE [c2 EXCEPT !.fs.mounted = TRUE]

init(c, f) ==
    IF c.fs.mounted THEN c
    ELSE mount_or_format([c EXCEPT !.fs.total_sectors = CapacitySectors], f)

remount(c, f) == init([c EXCEPT !.fs.mounted = FALSE], f)

ensure_mounted(c, f) == IF c.fs.mounted THEN c ELSE init(c, f)

sync_metadata(c, f) ==
    LET c1 == ensure_mounted(c, f)
    IN  IF c1.err /= "" THEN c1 ELSE persist_metadata(c1, f)

(***************************************************************************)
(* Paths.  A path is a sequence of bytes.                                  *)
(***************************************************************************)
SPACE == 32
SLASH == 47

RECURSIVE TrimStart(_)
TrimStart(s) == IF s /= <<>> /\ Head(s) = SPACE THEN TrimStart(Tail(s)) ELSE s

RECURSIVE TrimEnd(_)
TrimEnd(s) ==
    IF s /= <<>> /\ s[Len(s)] = SPACE THEN TrimEnd(SubSeq(s, 1, Len(s) - 1)) ELSE s

normalize_name(path) ==
    LET trimmed == TrimEnd(TrimStart(path))
        name == IF trimmed /= <<>> /\ Head(trimmed) = SLASH THEN Tail(trimmed)
                ELSE trimmed
    IN  IF name = <<>> \/ (\E i \in 1..Len(name) : name[i] = SLASH)
        THEN [err |-> "InvalidPath", name |-> <<>>]
        ELSE IF Len(name) > MAX_FILE_NAME_BYTES
        THEN [err |-> "NameTooLong", name |-> <<>>]
        ELSE [err |-> "", name |-> name]

\* 1-based slot of the used entry called `name`, 0 when there is none.
find_index(f0, name) ==
    LET hits == {i \in 1..MAX_FILES : f0.entries[i].used /\ f0.entries[i].name = name}
    IN  IF hits = {} THEN 0 ELSE CHOOSE i \in hits : \A j \in hits : i <= j

find_free_index(f0) ==
    LET free == {i \in 1..MAX_FILES : ~f0.entries[i].used}
    IN  IF free = {} THEN 0 ELSE CHOOSE i \in free : \A j \in free : i <= j

\* allocate_extent that returns the cursor without moving it.
allocate_extent_in_place(c, sectors) ==
    LET end == c.fs.next_free_sector + sectors
    IN  IF end > c.fs.total_sectors
        THEN [c |-> Fail(c, "StorageNoSpace"), start |-> 0]
        ELSE [c |-> c, start |-> c.fs.next_free_sector]

\* The context after the allocation (err set when the data area is full) and
\* the first sector of the extent.
allocate_extent(c, sectors) ==
    LET end == c.fs.next_free_sector + sectors
    IN  IF end > c.fs.total_sectors
        THEN [c |-> Fail(c, "StorageNoSpace"), start |-> 0]
        ELSE [c |-> [c EXCEPT !.fs.next_free_sector = end],
              start |-> c.fs.next_free_sector]

(***************************************************************************)
(* Vfs for DiskFs: list, read, write, delete.                              *)
(***************************************************************************)
RECURSIVE ListFrom(_, _)
ListFrom(f0, i) ==
    IF i > MAX_FILES THEN <<>>
    ELSE IF f0.entries[i].used
    THEN <<[name |-> f0.entries[i].name, size |-> f0.entries[i].size_bytes]>>
         \o ListFrom(f0, i + 1)
    ELSE ListFrom(f0, i + 1)

\* list() into a buffer of MAX_FILES entries, as every caller passes.
list(f0) == ListFrom(f0, 1)

\* The loop of read: sectors sector_idx.. of the extent copied into out.
RECURSIVE ReadSectors(_, _, _, _, _)
ReadSectors(c, entry, sector_idx, out, f) ==
    IF sector_idx >= entry.sector_count THEN [c |-> c, out |-> out]
    ELSE LET r == read_sector(c, entry.start_sector + sector_idx, f)
             size == entry.size_bytes
             start == sector_idx * SECTOR_SIZE
             end == Min(start + SECTOR_SIZE, size)
             bytes == DataView(r.data)
         IN  IF r.c.err /= "" THEN [c |-> r.c, out |-> out]
             ELSE IF end < start THEN [c |-> Fail(r.c, "Panic"), out |-> out]
             ELSE ReadSectors(r.c, entry, sector_idx + 1,
                    [i \in 1..Len(out) |->
                        IF start < i /\ i <= end THEN bytes[i - start] ELSE out[i]], f)

\* read(path, out) with len(out) = buflen: the result ("Ok" or the error),
\* the returned length and the buffer afterwards.
read(f0, d0, path, buflen, f) ==
    LET n == normalize_name(path)
        index == find_index(f0, n.name)
        entry == f0.entries[index]
        size == entry.size_bytes
        zero == [i \in 1..buflen |-> 0]
        Err(e) == [res |-> e, len |-> 0, out |-> zero, faulted |-> FALSE]
    IN  IF ~f0.mounted THEN Err("StorageUnavailable")
        ELSE IF n.err /= "" THEN Err(n.err)
        ELSE IF index = 0 THEN Err("NotFound")
        ELSE IF buflen < size THEN Err("BufferTooSmall")
        ELSE IF size = 0 THEN [res |-> "Ok", len |-> 0, out |-> zero, faulted |-> FALSE]
        ELSE IF entry.sector_count = 0 \/ entry.start_sector < DATA_START_SECTOR
        THEN Err("DiskCorrupt")
        ELSE LET r == ReadSectors(Ctx(f0, d0), entry, 0, zero, f)
             IN  IF r.c.err /= ""
                 THEN [res |-> r.c.err, len |-> 0, out |-> r.out, faulted |-> r.c.faulted]
                 ELSE [res |-> "Ok", len |-> size, out |-> r.out, faulted |-> FALSE]

\* The loop of write: the data cut into zero-padded sectors.
RECURSIVE WriteSectors(_, _, _, _, _, _)
WriteSectors(c, start_sector, needed_sectors, sector_idx, data, f) ==
    IF sector_idx >= needed_sectors \/ c.err /= "" THEN c
    ELSE WriteSectors(
            write_sector(c, start_sector + sector_idx, DataSector(data, sector_idx), f),
            start_sector, needed_sectors, sector_idx + 1, data, f)

\* write, from the extent decision on: the data sectors, then the entry and
\* the metadata.  `a` is the context after the extent decision and the first
\* sector of the extent.
WriteEntry(c2, entry_index, was_used, name, data, start_sector, needed_sectors, f) ==
    IF c2.err /= "" THEN c2
    ELSE persist_metadata(
            [c2 EXCEPT
                !.fs.file_count = IF was_used THEN @ ELSE @ + 1,
                !.fs.entries[entry_index] =
                    [used |-> TRUE, name |-> name, name_len |-> Len(name),
                     size_bytes |-> Len(data), start_sector |-> start_sector,
                     sector_count |-> needed_sectors]], f)

WriteExtent(a, entry_index, was_used, name, data, needed_sectors, f) ==
    IF a.c.err /= "" THEN a.c
    ELSE WriteEntry(WriteSectors(a.c, a.start, needed_sectors, 0, data, f),
                    entry_index, was_used, name, data, a.start, needed_sectors, f)

\* WriteSlot reusing the extent of every used entry, whatever its size.
WriteSlotAlwaysReuse(c1, entry_index, name, data, needed_sectors, f) ==
    LET entry == c1.fs.entries[entry_index]
    IN  IF entry_index = 0 THEN Fail(c1, "NoSpace")
        ELSE WriteExtent(
                IF needed_sectors = 0 THEN [c |-> c1, start |-> 0]
                ELSE IF entry.used
                THEN [c |-> c1, start |-> entry.start_sector]
                ELSE allocate_extent(c1, needed_sectors),
                entry_index, entry.used, name, data, needed_sectors, f)

\* write, from the slot decision on: reuse the extent of the entry when it
\* is large enough, else bump-allocate a new one.
WriteSlot(c1, entry_index, name, data, needed_sectors, f) ==
    LET entry == c1.fs.entries[entry_index]
    IN  IF entry_index = 0 THEN Fail(c1, "NoSpace")
        ELSE WriteExtent(
                IF needed_sectors = 0 THEN [c |-> c1, start |-> 0]
                ELSE IF entry.used /\ entry.sector_count >= needed_sectors
                        /\ entry.start_sector /= 0
                THEN [c |-> c1, start |-> entry.start_sector]
                ELSE allocate_extent(c1, needed_sectors),
                entry_index, entry.used, name, data, needed_sectors, f)

\* write, once the volume is mounted (c1) and the path normalized (n).
WriteMounted(c1, n, data, f) ==
    LET found == find_index(c1.fs, n.name)
    IN  IF c1.err /= "" THEN c1
        ELSE IF Len(data) > MAX_FILE_BYTES THEN Fail(c1, "FileTooLarge")
        ELSE IF n.err /= "" THEN Fail(c1, n.err)
        ELSE WriteSlot(c1, IF found /= 0 THEN found ELSE find_free_index(c1.fs),
                       n.name, data,
                       IF data = <<>> THEN 0 ELSE DivCeil(Len(data), SECTOR_SIZE), f)

write(c0, path, data, f) ==
    WriteMounted(ensure_mounted(c0, f), normalize_name(path), data, f)

\* delete that lowers file_count but leaves the entry in place.
deleteKeepEntry(c0, path, f) ==
    LET c1 == ensure_mounted(c0, f)
        n == normalize_name(path)
        index == find_index(c1.fs, n.name)
    IN  IF c1.err /= "" THEN c1
        ELSE IF n.err /= "" THEN Fail(c1, n.err)
        ELSE IF index = 0 THEN Fail(c1, "NotFound")
        ELSE persist_metadata(
                [c1 EXCEPT !.fs.file_count = IF @ > 0 THEN @ - 1 ELSE 0], f)

delete(c0, path, f) ==
    LET c1 == ensure_mounted(c0, f)
        n == normalize_name(path)
        index == find_index(c1.fs, n.name)
    IN  IF c1.err /= "" THEN c1
        ELSE IF n.err /= "" THEN Fail(c1, n.err)
        ELSE IF index = 0 THEN Fail(c1, "NotFound")
        ELSE persist_metadata(
                [c1 EXCEPT !.fs.entries[index] = DiskEntryEmpty,
                           !.fs.file_count = IF @ > 0 THEN @ - 1 ELSE 0], f)

(***************************************************************************)
(* Filesystem calls as actions.                                            *)
(***************************************************************************)
LongName == [i \in 1..(MAX_FILE_NAME_BYTES + 1) |-> 120]

\* " a", "/b", "a/b" and a name of 49 bytes.
Paths == { <<SPACE, 97>>, <<SLASH, 98>>, <<97, SLASH, 98>>, LongName }

DataOf(len, tag) == [i \in 1..len |-> 10 * tag + i]

\* File contents: empty, one byte, a full sector, and one byte over the limit.
Datas ==
    { DataOf(0, 1), DataOf(1, 1), DataOf(MAX_FILE_BYTES, 2),
      DataOf(MAX_FILE_BYTES + 1, 1) }

\* The (path, data) arguments of write: every legal name with every legal
\* content, and each rejected argument alone and together.
WriteArgs ==
    {a \in Paths \X Datas :
        \/ normalize_name(a[1]).err = "" /\ Len(a[2]) <= MAX_FILE_BYTES
        \/ a[2] = DataOf(1, 1)
        \/ a = <<<<SPACE, 97>>, DataOf(MAX_FILE_BYTES + 1, 1)>>
        \/ a = <<LongName, DataOf(MAX_FILE_BYTES + 1, 1)>>}

BufLens == {0, 1, MAX_FILE_BYTES}

\* The device faults a call that issues n sector requests may meet: none, or
\* (while the budget lasts) the failure of one of the n requests.
Faults(n) ==
    {NoFault} \cup
        (IF faultsLeft > 0
         THEN {[at |-> k, applied |-> b] : k \in 1..n, b \in BOOLEAN}
         ELSE {})

Res(c) == IF c.err = "" THEN "Ok" ELSE c.err

\* What read returns for every listed file when the device answers.
ReadAll(f0, d0) ==
    [i \in 1..Len(list(f0)) |->
        LET r == read(f0, d0, list(f0)[i].name, MAX_FILE_BYTES, NoFault)
        IN  [res |-> r.res, len |-> r.len, out |-> r.out]]

\* The state after a mutating call that ended in context c.
Commit(c, op) ==
    /\ fs' = c.fs
    /\ disk' = c.disk
    /\ lastOp' = op
    /\ failedOps' = (failedOps \/ c.err /= "")
    /\ faultsLeft' = IF c.faulted THEN faultsLeft - 1 ELSE faultsLeft
    /\ UNCHANGED <<storage_ready, notFs>>

FsMount ==
    \E f \in Faults(init(Ctx(fs, disk), NoFault).io) :
        LET c == init(Ctx(fs, disk), f)
        IN  Commit(c, [kind |-> "mount", path |-> <<>>, data |-> <<>>,
                       res |-> Res(c), faulted |-> c.faulted])

FsWrite ==
    \E a \in WriteArgs :
      \E f \in Faults(write(Ctx(fs, disk), a[1], a[2], NoFault).io) :
        LET c == write(Ctx(fs, disk), a[1], a[2], f)
        IN  Commit(c, [kind |-> "write", path |-> a[1], data |-> a[2],
                       res |-> Res(c), faulted |-> c.faulted])

FsDelete ==
    \E path \in Paths :
      \E f \in Faults(delete(Ctx(fs, disk), path, NoFault).io) :
        LET c == delete(Ctx(fs, disk), path, f)
        IN  Commit(c, [kind |-> "delete", path |-> path, data |-> <<>>,
                       res |-> Res(c), faulted |-> c.faulted,
                       again |-> /\ lastOp.kind = "delete"
                                 /\ lastOp.res = "Ok"
                                 /\ normalize_name(lastOp.path) = normalize_name(path)])

FsSync ==
    \E f \in Faults(sync_metadata(Ctx(fs, disk), NoFault).io) :
        LET c == sync_metadata(Ctx(fs, disk), f)
        IN  Commit(c, [kind |-> "sync", path |-> <<>>, data |-> <<>>,
                       res |-> Res(c), faulted |-> c.faulted])

FsRemount ==
    \E f \in Faults(remount(Ctx(fs, disk), NoFault).io) :
        LET c == remount(Ctx(fs, disk), f)
        IN  Commit(c, [kind |-> "remount", path |-> <<>>, data |-> <<>>,
                       res |-> Res(c), faulted |-> c.faulted,
                       clean |-> ~failedOps,
                       listBefore |-> list(fs), listAfter |-> list(c.fs),
                       readBefore |-> ReadAll(fs, disk),
                       readAfter |-> ReadAll(c.fs, c.disk)])

\* DiskFs::new() over a zeroed medium; the device fails at most `budget`
\* sector requests.
FsInit(budget) ==
    /\ disk = [s \in 0..(CapacitySectors - 1) |-> ZeroSector]
    /\ fs = DiskFsNew
    /\ storage_ready = TRUE
    /\ lastOp = [kind |-> "boot", path |-> <<>>, data |-> <<>>, res |-> "Ok",
                 faulted |-> FALSE]
    /\ failedOps = FALSE
    /\ faultsLeft = budget

FsNext == FsMount \/ FsWrite \/ FsDelete \/ FsSync \/ FsRemount

(***************************************************************************)
(* Volume images that were not written by this code: a valid superblock    *)
(* and a directory whose entries hold any size, start and sector count.    *)
(***************************************************************************)
ImageExtents ==
    {<<0, 0, 0>>, <<1, 0, 0>>,
     <<0, DATA_START_SECTOR, 1>>, <<1, DATA_START_SECTOR, 1>>,
     <<SECTOR_SIZE, DATA_START_SECTOR, 1>>, <<SECTOR_SIZE + 1, DATA_START_SECTOR, 1>>,
     <<1, DATA_START_SECTOR, 2>>, <<SECTOR_SIZE + 1, DATA_START_SECTOR, 2>>,
     <<2 * SECTOR_SIZE, DATA_START_SECTOR, 2>>,
     <<1, DATA_START_SECTOR - 1, 1>>, <<1, DATA_START_SECTOR + 1, 2>>}

ImageEntry(name, x) ==
    [used |-> TRUE, name |-> name, name_len |-> Len(name), size_bytes |-> x[1],
     start_sector |-> x[2], sector_count |-> x[3]]

\* Directories of the image: each slot empty or holding a file named after
\* the slot ("a", "b").
ImageEntries ==
    {[i \in 1..MAX_FILES |-> e[i]] :
        e \in [1..MAX_FILES ->
                  {DiskEntryEmpty} \cup {ImageEntry(<<97>>, x) : x \in ImageExtents}
                                   \cup {ImageEntry(<<98>>, x) : x \in ImageExtents}]}

ImageDisk(entries) ==
    [sec \in 0..(CapacitySectors - 1) |->
        IF sec = SUPERBLOCK_SECTOR
        THEN SuperSector([next_free_sector |-> CapacitySectors,
                          file_count |-> Cardinality({i \in 1..MAX_FILES : entries[i].used}),
                          total_sectors |-> CapacitySectors])
        ELSE IF sec < DATA_START_SECTOR
        THEN DirSector(EncodeDir(entries), sec - DIR_START_SECTOR)
        ELSE [kind |-> "data", bytes |-> [j \in 1..SECTOR_SIZE |-> 10 * sec + j]]]

ImgBufLens == 0..(2 * SECTOR_SIZE)

ImgInit ==
    /\ \E entries \in ImageEntries :
           /\ entries[1].used => entries[1].name = <<97>>
           /\ entries[2].used => entries[2].name = <<98>>
           /\ disk = ImageDisk(entries)
    /\ fs = DiskFsNew
    /\ storage_ready = TRUE
    /\ lastOp = [kind |-> "boot", path |-> <<>>, data |-> <<>>, res |-> "Ok",
                 faulted |-> FALSE]
    /\ failedOps = FALSE
    /\ faultsLeft = MaxFaults

\* read(path, out) on the mounted image; the record keeps the entry found.
FsRead ==
    /\ fs.mounted
    /\ \E path \in {<<SPACE, 97>>, <<SLASH, 98>>}, buflen \in ImgBufLens :
        \E f \in Faults(MAX_FILES) :
          LET r == read(fs, disk, path, buflen, f)
              index == find_index(fs, normalize_name(path).name)
          IN  /\ lastOp' = [kind |-> "read", path |-> path, data |-> r.out,
                            res |-> r.res, faulted |-> r.faulted, len |-> r.len,
                            buflen |-> buflen, found |-> index /= 0,
                            entry |-> IF index = 0 THEN DiskEntryEmpty
                                      ELSE fs.entries[index]]
              /\ faultsLeft' = IF r.faulted THEN faultsLeft - 1 ELSE faultsLeft
              /\ failedOps' = (failedOps \/ r.res /= "Ok")
    /\ UNCHANGED <<fs, disk, storage_ready, notFs>>

ImgNext == FsMount \/ FsRead

(***************************************************************************)
(* The blocking submit path of the virtio drivers: storage submit_io (blk),*)
(* net transmit_frame (net, TX queue) and virtio_sound send_ctrl (snd,     *)
(* control queue).  Every request uses descriptor chain 0 and the one      *)
(* request memory of the driver; the device fetches an avail entry, serves *)
(* what the request memory holds at that moment, and later publishes the   *)
(* completion (status, then used.idx).                                     *)
(***************************************************************************)
IDX_MOD == 65536
MAX_POLL_SPINS == 2
MaxRequests == 3
VIRTIO_SND_S_OK == 32768

Kinds == {"blk", "net", "snd"}

Inc16(x) == (x + 1) % IDX_MOD

\* The status value the device writes for a request it served.
DeviceStatus(kind, ok) ==
    CASE kind = "blk" -> IF ok THEN 0 ELSE 1
      [] kind = "snd" -> IF ok THEN VIRTIO_SND_S_OK ELSE VIRTIO_SND_S_OK + 1
      [] OTHER -> 0

\* The status the driver stores before it publishes the request.
SubmitStatus(kind, old) ==
    CASE kind = "blk" -> 255
      [] kind = "snd" -> 0
      [] OTHER -> old

\* The result of a call whose poll loop saw its expected used index.
CompletionResult(kind, status) ==
    CASE kind = "blk" -> IF status /= 0 THEN "DeviceFailure" ELSE "Ok"
      [] kind = "snd" -> IF status /= VIRTIO_SND_S_OK /\ status /= 0
                         THEN "DeviceFailure" ELSE "Ok"
      [] OTHER -> "Ok"

\* The poll loop gives up: `loop` with `spins >= MAX_POLL_SPINS` checked after
\* the comparison (blk, net), `for _ in 0..MAX_CONTROL_SPINS` (snd).
SpinsExhausted(kind, spins) ==
    IF kind = "snd" THEN spins + 1 >= MAX_POLL_SPINS ELSE spins >= MAX_POLL_SPINS

\* The queue of driver `kind` after a successful initialization.
VqInit(kind) ==
    /\ vq = [kind |-> kind, avail_idx |-> 0, used_idx |-> 0, last_used_idx |-> 0,
             status |-> 0, req_mem |-> 0]
    /\ dev = [fetched |-> 0, serving |-> 0, used_log |-> <<>>]
    /\ call = [pc |-> "idle", req |-> 0, entry |-> 0, expected |-> 0, spins |-> 0]
    /\ vqLast = [res |-> "", req |-> 0, entry |-> 0, consumed |-> 0,
                 own_done |-> FALSE, after_timeout |-> FALSE]

\* The device has published, with a good status, the completion of avail
\* entry number `entry`.
Completed(entry) ==
    entry <= Len(dev.used_log) /\ dev.used_log[entry].ok

\* submit_io / transmit_frame / send_ctrl up to the queue notify.
Submit ==
    /\ call.pc = "idle"
    /\ vqLast.req < MaxRequests
    /\ vq' = [vq EXCEPT !.req_mem = vqLast.req + 1,
                        !.status = SubmitStatus(vq.kind, @),
                        !.avail_idx = Inc16(@)]
    /\ call' = [pc |-> "poll", req |-> vqLast.req + 1, entry |-> Inc16(vq.avail_idx),
                expected |-> Inc16(vq.last_used_idx), spins |-> 0]
    /\ UNCHANGED <<dev, vqLast, notVq>>

\* One iteration of the poll loop, and the return that follows its exit.
Poll ==
    /\ call.pc = "poll"
    /\ IF vq.used_idx = call.expected
       THEN /\ vq' = [vq EXCEPT !.last_used_idx = call.expected]
            /\ call' = [call EXCEPT !.pc = "idle"]
            /\ vqLast' = [res |-> CompletionResult(vq.kind, vq.status),
                          req |-> call.req, entry |-> call.entry,
                          consumed |-> call.expected,
                          own_done |-> Completed(call.entry),
                          after_timeout |-> vqLast.res = "IoTimeout"]
       ELSE IF SpinsExhausted(vq.kind, call.spins)
       THEN /\ call' = [call EXCEPT !.pc = "idle"]
            /\ vqLast' = [res |-> "IoTimeout", req |-> call.req, entry |-> call.entry,
                          consumed |-> 0, own_done |-> Completed(call.entry),
                          after_timeout |-> vqLast.res = "IoTimeout"]
            /\ UNCHANGED vq
       ELSE /\ call' = [call EXCEPT !.spins = @ + 1]
            /\ UNCHANGED <<vq, vqLast>>
    /\ UNCHANGED <<dev, notVq>>

\* The device takes the next avail entry and reads the request it points to.
DeviceFetch ==
    /\ dev.serving = 0
    /\ dev.fetched /= vq.avail_idx
    /\ dev' = [dev EXCEPT !.fetched = Inc16(@), !.serving = vq.req_mem]
    /\ UNCHANGED <<vq, call, vqLast, notVq>>

\* The device writes the status of the request in service and publishes the
\* used entry.
DeviceFinish ==
    /\ dev.serving /= 0
    /\ \E ok \in (IF vq.kind = "net" THEN {TRUE} ELSE BOOLEAN) :
        /\ vq' = [vq EXCEPT !.status = IF vq.kind = "net" THEN @
                                       ELSE DeviceStatus(vq.kind, ok),
                            !.used_idx = Inc16(@)]
        /\ dev' = [dev EXCEPT !.serving = 0,
                              !.used_log = Append(@, [req |-> dev.serving, ok |-> ok])]
    /\ UNCHANGED <<call, vqLast, notVq>>

VqNext == Submit \/ Poll \/ DeviceFetch \/ DeviceFinish

(***************************************************************************)
(* The SPSC rings: keyboard byte queue, keyboard key-event queue, mouse    *)
(* event queue.  The producer is the interrupt handler, which runs to      *)
(* completion between any two steps of the consumer (the main loop).       *)
(***************************************************************************)
QUEUE_CAPACITY == 3
MaxPushes == 5
EVENT_PRESSED_MASK == 32768
EVENT_CODE_ARROW_UP == 256

QueueKinds == {"kbd_byte", "kbd_event", "mouse"}

ArrowCodes == <<"ArrowUp", "ArrowDown", "ArrowLeft", "ArrowRight">>

\* What the producers push: ASCII bytes, KeyEvents, MouseEvents.
Items(kind) ==
    CASE kind = "kbd_byte" -> {65, 10}
      [] kind = "kbd_event" ->
            {[code |-> c, pressed |-> b] :
                c \in {[key |-> "Byte", byte |-> 65], [key |-> "ArrowUp", byte |-> 0],
                       [key |-> "ArrowRight", byte |-> 0]},
                b \in BOOLEAN}
      [] OTHER -> {[dx |-> 1, dy |-> -1, left_button |-> TRUE],
                   [dx |-> 0, dy |-> 0, left_button |-> FALSE]}

\* The content of a slot nothing was written to.
EmptySlot(kind) ==
    IF kind = "mouse" THEN [dx |-> 0, dy |-> 0, left_button |-> FALSE] ELSE 0

encode_key_event(event) ==
    LET code == IF event.code.key = "Byte" THEN event.code.byte
                ELSE EVENT_CODE_ARROW_UP
                     + (CHOOSE i \in 0..3 : ArrowCodes[i + 1] = event.code.key)
    IN  IF event.pressed THEN code + EVENT_PRESSED_MASK ELSE code

\* Some(KeyEvent) or None.
decode_key_event(encoded) ==
    LET pressed == encoded >= EVENT_PRESSED_MASK
        value == encoded % EVENT_PRESSED_MASK
    IN  IF value >= EVENT_CODE_ARROW_UP /\ value <= EVENT_CODE_ARROW_UP + 3
        THEN [some |-> TRUE,
              item |-> [code |-> [key |-> ArrowCodes[value - EVENT_CODE_ARROW_UP + 1],
                                  byte |-> 0],
                        pressed |-> pressed]]
        ELSE IF value <= 255
        THEN [some |-> TRUE,
              item |-> [code |-> [key |-> "Byte", byte |-> value], pressed |-> pressed]]
        ELSE [some |-> FALSE, item |-> 0]

\* What push stores in the slot, and what pop returns for a slot.
SlotOf(kind, item) == IF kind = "kbd_event" THEN encode_key_event(item) ELSE item

ItemOf(kind, slot) ==
    IF kind = "kbd_event" THEN decode_key_event(slot) ELSE [some |-> TRUE, item |-> slot]

NextIndex(i) == (i + 1) % QUEUE_CAPACITY

\* The mutation of the full test under which push never drops.
QueueFullNever(next_head, tail) == FALSE

\* push: the ring is full when the slot after head is the consumer's tail.
QueueFull(next_head, tail) == next_head = tail

QInit(kind) ==
    /\ q = [kind |-> kind, buf |-> [i \in 0..(QUEUE_CAPACITY - 1) |-> EmptySlot(kind)],
            head |-> 0, tail |-> 0, dropped |-> 0]
    /\ popper = [pc |-> "idle", tail |-> 0, head |-> 0, slot |-> EmptySlot(kind)]
    /\ qHist = [pushes |-> 0, accepted |-> <<>>, popped |-> <<>>, raced |-> FALSE]

\* push_byte / push_key_event / push_event, called from the IRQ handler.
Push ==
    /\ qHist.pushes < MaxPushes
    /\ \E item \in Items(q.kind) :
        IF QueueFull(NextIndex(q.head), q.tail)
        THEN /\ q' = [q EXCEPT !.dropped = @ + 1]
             /\ qHist' = [qHist EXCEPT !.pushes = @ + 1,
                                       !.raced = @ \/ popper.pc /= "idle"]
        ELSE /\ q' = [q EXCEPT !.buf[q.head] = SlotOf(q.kind, item),
                               !.head = NextIndex(q.head)]
             /\ qHist' = [qHist EXCEPT !.pushes = @ + 1,
                                       !.accepted = Append(@, item),
                                       !.raced = @ \/ popper.pc /= "idle"]
    /\ UNCHANGED <<popper, notQ>>

\* pop_byte / pop_key_event / pop_event: load tail, load head, read the
\* slot, store the new tail.
PopLoadTail ==
    /\ popper.pc = "idle"
    /\ popper' = [popper EXCEPT !.pc = "head", !.tail = q.tail]
    /\ UNCHANGED <<q, qHist, notQ>>

PopLoadHead ==
    /\ popper.pc = "head"
    /\ popper' = [popper EXCEPT !.head = q.head,
                                !.pc = IF popper.tail = q.head THEN "idle" ELSE "read"]
    /\ UNCHANGED <<q, qHist, notQ>>

PopRead ==
    /\ popper.pc = "read"
    /\ popper' = [popper EXCEPT !.pc = "store", !.slot = q.buf[popper.tail]]
    /\ UNCHANGED <<q, qHist, notQ>>

PopStoreTail ==
    /\ popper.pc = "store"
    /\ q' = [q EXCEPT !.tail = NextIndex(popper.tail)]
    /\ popper' = [popper EXCEPT !.pc = "idle"]
    /\ qHist' = [qHist EXCEPT !.popped =
                    IF ItemOf(q.kind, popper.slot).some
                    THEN Append(@, ItemOf(q.kind, popper.slot).item) ELSE @]
    /\ UNCHANGED notQ

QNext == Push \/ PopLoadTail \/ PopLoadHead \/ PopRead \/ PopStoreTail

(***************************************************************************)
(* The boot-info frame allocator.  Physical addresses are u64 in the       *)
(* kernel; here the address space ends at ADDR_MAX, and checked_add fails  *)
(* past it exactly as it does past u64::MAX.                               *)
(***************************************************************************)
PAGE_SIZE == 4096
MIN_ALLOC_PHYS_ADDR == 1048576
ADDR_MAX == 2097151
MaxRegions == 3
MaxAllocs == 4

None == [some |-> FALSE, v |-> 0]
Some(v) == [some |-> TRUE, v |-> v]

checked_add(a, b) == IF a + b > ADDR_MAX THEN None ELSE Some(a + b)

Max(a, b) == IF a > b THEN a ELSE b

\* The mutation of align_up_u64 that rounds towards zero.
AlignDown(addr, align) ==
    IF align = 0 THEN None ELSE Some(addr - (addr % align))

align_up_u64(addr, align) ==
    IF align = 0 THEN None
    ELSE LET remainder == addr % align
         IN  IF remainder = 0 THEN Some(addr)
             ELSE checked_add(addr, align - remainder)

\* PhysFrame::containing_address: the frame of the page holding addr.
ContainingFrame(addr) == (addr \div PAGE_SIZE) * PAGE_SIZE

\* Region boundaries: below and at the 1 MiB floor, page aligned and not,
\* and at the top of the address space.
RegionBounds ==
    {MIN_ALLOC_PHYS_ADDR - PAGE_SIZE, MIN_ALLOC_PHYS_ADDR + 2048,
     MIN_ALLOC_PHYS_ADDR + 2 * PAGE_SIZE, MIN_ALLOC_PHYS_ADDR + 2 * PAGE_SIZE + 2048,
     MIN_ALLOC_PHYS_ADDR + 4 * PAGE_SIZE,
     ContainingFrame(ADDR_MAX), Min(ContainingFrame(ADDR_MAX) + 2048, ADDR_MAX), ADDR_MAX}

MemoryRegions ==
    {[start |-> s, end |-> e, kind |-> k] :
        s \in RegionBounds, e \in RegionBounds, k \in {"Usable", "Bootloader"}}

Disjoint(r1, r2) == r1.end <= r2.start \/ r2.end <= r1.start

\* The memory maps a bootloader hands over: non-empty regions that do not
\* overlap, in any order.
RECURSIVE MemoryMaps(_)
MemoryMaps(n) ==
    IF n = 0 THEN {<<>>}
    ELSE LET shorter == MemoryMaps(n - 1)
             longest == {m \in shorter : Len(m) = n - 1}
             regions == {r \in MemoryRegions : r.start < r.end}
         IN  shorter \cup
             {Append(p[1], p[2]) :
                 p \in {pp \in longest \X regions :
                           \A i \in 1..(n - 1) : Disjoint(pp[1][i], pp[2])}}

new(regions) ==
    [regions |-> regions, region_cursor |-> 0, next_addr |-> 0, current_region_end |-> 0]

\* select_next_region: the allocator afterwards, and whether a region was found.
RECURSIVE select_next_region(_)
select_next_region(a) ==
    IF a.region_cursor < Len(a.regions)
    THEN LET region == a.regions[a.region_cursor + 1]
             a1 == [a EXCEPT !.region_cursor = @ + 1]
             aligned == align_up_u64(region.start, PAGE_SIZE)
             start == Max(aligned.v, MIN_ALLOC_PHYS_ADDR)
         IN  IF region.kind /= "Usable" THEN select_next_region(a1)
             ELSE IF ~aligned.some THEN select_next_region(a1)
             ELSE IF start >= region.end THEN select_next_region(a1)
             ELSE [a |-> [a1 EXCEPT !.next_addr = start,
                                   !.current_region_end = region.end],
                   found |-> TRUE]
    ELSE [a |-> [a EXCEPT !.next_addr = 0, !.current_region_end = 0], found |-> FALSE]

\* allocate_frame: the allocator afterwards, and Some(frame) or None.
RECURSIVE allocate_frame(_)
AllocateSelected(a) ==
    LET frame_start == a.next_addr
        frame_end == checked_add(frame_start, PAGE_SIZE)
    IN  IF ~frame_end.some
        THEN allocate_frame([a EXCEPT !.next_addr = a.current_region_end])
        ELSE IF frame_end.v > a.current_region_end
        THEN allocate_frame([a EXCEPT !.next_addr = a.current_region_end])
        ELSE [a |-> [a EXCEPT !.next_addr = frame_end.v],
              frame |-> Some(ContainingFrame(frame_start))]

allocate_frame(a) ==
    IF a.next_addr = 0 \/ a.next_addr >= a.current_region_end
    THEN LET sel == select_next_region(a)
         IN  IF ~sel.found THEN [a |-> sel.a, frame |-> None]
             ELSE AllocateSelected(sel.a)
    ELSE AllocateSelected(a)

MemInit(maps) ==
    /\ alloc \in {new(m) : m \in maps}
    /\ frames = [returned |-> <<>>, calls |-> 0]

\* One call of allocate_frame by map_heap or by the page-table mapper.
AllocateFrame ==
    /\ frames.calls < MaxAllocs
    /\ LET r == allocate_frame(alloc)
       IN  /\ alloc' = r.a
           /\ frames' = [returned |-> IF r.frame.some
                                      THEN Append(frames.returned, r.frame.v)
                                      ELSE frames.returned,
                         calls |-> frames.calls + 1]
    /\ UNCHANGED notMem

MemNext == AllocateFrame

(***************************************************************************)
(* Driver initialization: virtio-blk and virtio-net (legacy port I/O) and  *)
(* virtio-snd (modern, memory-mapped common configuration).  What the      *)
(* device and the address translation answer is an input of the call.      *)
(***************************************************************************)
VIRTIO_STATUS_ACK == 1
VIRTIO_STATUS_DRIVER == 2
VIRTIO_STATUS_DRIVER_OK == 4
VIRTIO_STATUS_FEATURES_OK == 8
VIRTIO_STATUS_FAILED == 128
MAX_QUEUE_SIZE == 256
VRING_ALIGN == 4096
CTRL_QUEUE_SIZE == 8
TX_QUEUE_SIZE == 32
RX_QUEUE_INDEX == 0
TX_QUEUE_INDEX == 1
CTRL_QUEUE_INDEX == 0
SND_TX_QUEUE_INDEX == 2

HasBit(value, bit) == (value \div bit) % 2 = 1
BitOr(value, bit) == IF HasBit(value, bit) THEN value ELSE value + bit
BitClear(value, bit) == IF HasBit(value, bit) THEN value - bit ELSE value

RECURSIVE HighestBit(_, _)
HighestBit(value, bit) ==
    IF bit = 0 THEN 0
    ELSE IF HasBit(value, bit) THEN bit
    ELSE HighestBit(value, bit \div 2)

floor_pow2(value) == IF value = 0 THEN 0 ELSE HighestBit(value, 32768)

\* A legacy queue as the device and mem::virt_to_phys present it.
LegacyQueueEnvs ==
    [size : {0, 6, 8, MAX_QUEUE_SIZE, MAX_QUEUE_SIZE + 1},
     phys : {None, Some(2 * VRING_ALIGN), Some(2 * VRING_ALIGN + 8)},
     pfn_accepted : BOOLEAN]

\* A modern queue: the size the device offers, and whether its rings translate.
ModernQueueEnvs == [max_size : {0, 3, 64}, phys_ok : BOOLEAN]

SndControlSteps == <<"query_pcm_info", "select_output_stream", "send_set_params",
                     "pcm_prepare", "pcm_start">>

Envs(kind) ==
    CASE kind = "blk" -> [found : BOOLEAN, queue : LegacyQueueEnvs]
      [] kind = "net" -> [found : BOOLEAN, rx : LegacyQueueEnvs, tx : LegacyQueueEnvs,
                          buffers_phys : BOOLEAN, dhcp : {"lease", "none", "error"}]
      [] OTHER -> [found : BOOLEAN, common_map : BOOLEAN, notify_map : BOOLEAN,
                   device_map : BOOLEAN, features_ok : BOOLEAN,
                   ctrl : ModernQueueEnvs, tx : ModernQueueEnvs, streams : {0, 1},
                   ctrl_fail : {0, 1, 3, 5}]

Err(d, e) == [d |-> d, res |-> e]
Ok(d) == [d |-> d, res |-> "Ok"]

\* What the driver does to the device, in order: a write of the status
\* register, the feature handshake, a queue handed to the device, a buffer
\* made available (avail.idx incremented) and a queue notify.
Ev(d, op, v) == [d EXCEPT !.events = Append(@, [op |-> op, v |-> v])]

virtio_write_status(d, value) ==
    Ev([d EXCEPT !.status = value,
                 !.driver_ok = @ \/ HasBit(value, VIRTIO_STATUS_DRIVER_OK)],
       "status", value)

\* One buffer put on a queue: the avail index, then the notify register.
Post(d, queue) == Ev(Ev(d, "avail", queue), "notify", queue)

\* The queue as the driver will use it: the size the device published, the
\* size kept for ring arithmetic and the length of the static rings.
QueueSet(d, queue, max, size, cap) ==
    Ev([d EXCEPT !.queues = Append(@, [queue |-> queue, max |-> max, size |-> size,
                                       cap |-> cap])],
       "queue", queue)

\* reset, ACKNOWLEDGE, DRIVER and the feature registers of a legacy device.
legacy_handshake(d) ==
    Ev(virtio_write_status(
           virtio_write_status(
               virtio_write_status([d EXCEPT !.found = TRUE], 0),
               VIRTIO_STATUS_ACK),
           VIRTIO_STATUS_ACK + VIRTIO_STATUS_DRIVER),
       "features", 0)

\* storage: try_init from the queue setup on.
blk_setup(d, env) ==
    IF env.queue.size = 0
    THEN Err(virtio_write_status(d, VIRTIO_STATUS_FAILED), "QueueUnavailable")
    ELSE IF env.queue.size > MAX_QUEUE_SIZE
    THEN Err(virtio_write_status(d, VIRTIO_STATUS_FAILED), "QueueTooSmall")
    ELSE IF ~env.queue.phys.some
    THEN Err(d, "AddressTranslationFailed")
    ELSE IF env.queue.phys.v % VRING_ALIGN /= 0
    THEN Err(virtio_write_status(d, VIRTIO_STATUS_FAILED), "AddressTranslationFailed")
    ELSE IF (IF env.queue.pfn_accepted THEN env.queue.phys.v \div 4096 ELSE 0) = 0
    THEN Err(virtio_write_status(d, VIRTIO_STATUS_FAILED), "QueueUnavailable")
    ELSE Ok(virtio_write_status(
                [QueueSet(d, 0, env.queue.size, env.queue.size, MAX_QUEUE_SIZE)
                 EXCEPT !.ready = TRUE],
                VIRTIO_STATUS_ACK + VIRTIO_STATUS_DRIVER + VIRTIO_STATUS_DRIVER_OK))

blk_try_init(d, env) ==
    IF ~env.found THEN Err(d, "NotFound")
    ELSE blk_setup(legacy_handshake(d), env)

net_setup_queue(d, qenv, queue) ==
    IF qenv.size = 0
    THEN Err(virtio_write_status(d, VIRTIO_STATUS_FAILED), "QueueUnavailable")
    ELSE IF qenv.size > MAX_QUEUE_SIZE
    THEN Err(virtio_write_status(d, VIRTIO_STATUS_FAILED), "QueueTooLarge")
    ELSE IF ~qenv.phys.some
    THEN Err(d, "AddressTranslationFailed")
    ELSE IF qenv.phys.v % VRING_ALIGN /= 0
    THEN Err(d, "AddressTranslationFailed")
    ELSE IF (IF qenv.pfn_accepted THEN qenv.phys.v \div 4096 ELSE 0) = 0
    THEN Err(virtio_write_status(d, VIRTIO_STATUS_FAILED), "QueueUnavailable")
    ELSE Ok(QueueSet(d, queue, qenv.size, qenv.size, MAX_QUEUE_SIZE))

setup_buffers_phys(d, env) ==
    IF env.buffers_phys THEN Ok(d) ELSE Err(d, "AddressTranslationFailed")

\* net: setup_rx_descriptors and post_rx_buffer, which puts the receive
\* buffer on queue 0 and notifies it.
post_rx_buffer(d) == Post(d, RX_QUEUE_INDEX)

\* net: DRIVER_OK, ready, then DHCP over the running device (a DISCOVER
\* goes out on the transmit queue).
net_start(d, env) ==
    LET d1 == [virtio_write_status(post_rx_buffer(d),
                   VIRTIO_STATUS_ACK + VIRTIO_STATUS_DRIVER + VIRTIO_STATUS_DRIVER_OK)
               EXCEPT !.ready = TRUE]
        d2 == Post(d1, TX_QUEUE_INDEX)
    IN  IF env.dhcp = "error" THEN Err(d2, "IoTimeout") ELSE Ok(d2)

net_after_rx(r, env) ==
    IF r.res /= "Ok" THEN r
    ELSE LET t == net_setup_queue(r.d, env.tx, TX_QUEUE_INDEX)
         IN  IF t.res /= "Ok" THEN t
             ELSE IF setup_buffers_phys(t.d, env).res /= "Ok"
             THEN setup_buffers_phys(t.d, env)
             ELSE net_start(t.d, env)

net_try_init(d, env) ==
    IF ~env.found THEN Err(d, "NotFound")
    ELSE net_after_rx(net_setup_queue(legacy_handshake(d), env.rx, RX_QUEUE_INDEX), env)

\* init of storage and net: the error arm clears ready.
legacy_init(d, r) ==
    IF r.res = "Ok" THEN [r.d EXCEPT !.initialized = TRUE, !.init_res = r.res]
    ELSE [r.d EXCEPT !.initialized = TRUE, !.ready = FALSE, !.init_res = r.res]

snd_setup_queue(d, qenv, desired_size, n, queue) ==
    IF qenv.max_size = 0 THEN Err(d, "virtio_snd_queue_unavailable")
    ELSE IF floor_pow2(Min(qenv.max_size, desired_size)) = 0
    THEN Err(d, "virtio_snd_queue_size_zero")
    ELSE IF floor_pow2(Min(qenv.max_size, desired_size)) > n
    THEN Err(d, "virtio_snd_queue_size_too_big")
    ELSE IF ~qenv.phys_ok THEN Err(d, "virtio_snd_phys_missing")
    ELSE Ok(QueueSet(d, queue, qenv.max_size,
                     floor_pow2(Min(qenv.max_size, desired_size)), n))

\* The control commands of try_init that go through send_ctrl; each puts a
\* request on the control queue and notifies it.
SndControlSends == {1, 3, 4, 5}

RECURSIVE SndControl(_, _, _)
SndControl(d, step, last) ==
    IF step > last THEN d
    ELSE SndControl(IF step \in SndControlSends THEN Post(d, CTRL_QUEUE_INDEX) ELSE d,
                    step + 1, last)

\* snd: the control commands after both queues are up, then DRIVER_OK.
snd_start(d, env) ==
    IF env.streams = 0 THEN Err(d, "virtio_snd_no_streams")
    ELSE IF env.ctrl_fail /= 0
    THEN Err(SndControl(d, 1, env.ctrl_fail), SndControlSteps[env.ctrl_fail])
    ELSE Ok(virtio_write_status(
                [SndControl(d, 1, Len(SndControlSteps)) EXCEPT !.ready = TRUE],
                VIRTIO_STATUS_ACK + VIRTIO_STATUS_DRIVER + VIRTIO_STATUS_FEATURES_OK
                    + VIRTIO_STATUS_DRIVER_OK))

snd_queues(d, env) ==
    LET c == snd_setup_queue(d, env.ctrl, CTRL_QUEUE_SIZE, CTRL_QUEUE_SIZE, CTRL_QUEUE_INDEX)
        t == snd_setup_queue(c.d, env.tx, TX_QUEUE_SIZE, TX_QUEUE_SIZE, SND_TX_QUEUE_INDEX)
    IN  IF c.res /= "Ok" THEN c
        ELSE IF t.res /= "Ok" THEN t
        ELSE snd_start(t.d, env)

\* snd: the status handshake; the device clears FEATURES_OK to reject.
snd_negotiate(d, env) ==
    LET written == VIRTIO_STATUS_ACK + VIRTIO_STATUS_DRIVER + VIRTIO_STATUS_FEATURES_OK
        status == IF env.features_ok THEN written
                  ELSE BitClear(written, VIRTIO_STATUS_FEATURES_OK)
        d0 == virtio_write_status(
                  Ev(virtio_write_status(
                         virtio_write_status(virtio_write_status(d, 0), VIRTIO_STATUS_ACK),
                         VIRTIO_STATUS_ACK + VIRTIO_STATUS_DRIVER),
                     "features", 0),
                  written)
        d1 == [d0 EXCEPT !.status = status]
    IN  IF ~HasBit(status, VIRTIO_STATUS_FEATURES_OK)
        THEN Err(d1, "virtio_snd_features_rejected")
        ELSE snd_queues(d1, env)

snd_try_init(d, env) ==
    IF ~env.found THEN Err(d, "virtio_snd_not_found")
    ELSE IF ~env.common_map THEN Err([d EXCEPT !.found = TRUE], "virtio_snd_common_map")
    ELSE IF ~env.notify_map THEN Err([d EXCEPT !.found = TRUE], "virtio_snd_notify_map")
    ELSE IF ~env.device_map THEN Err([d EXCEPT !.found = TRUE], "virtio_snd_device_map")
    ELSE snd_negotiate([d EXCEPT !.found = TRUE, !.common_cfg = TRUE], env)

fail_device(d) ==
    IF ~d.common_cfg THEN d
    ELSE virtio_write_status(d, BitOr(d.status, VIRTIO_STATUS_FAILED))

init_once(d, env) ==
    LET r == snd_try_init([d EXCEPT !.initialized = TRUE], env)
    IN  IF r.res /= "Ok"
        THEN fail_device([r.d EXCEPT !.ready = FALSE, !.init_res = r.res])
        ELSE [r.d EXCEPT !.init_res = r.res]

\* init / init_once of the three drivers.
init_driver(d, env) ==
    CASE d.kind = "blk" -> legacy_init(d, blk_try_init(d, env))
      [] d.kind = "net" -> legacy_init(d, net_try_init(d, env))
      [] OTHER -> init_once(d, env)

\* StorageState::new, NetState::new, VirtioSound::new
DriverNew(kind) ==
    [kind |-> kind, status |-> 0, ready |-> FALSE, initialized |-> FALSE,
     common_cfg |-> FALSE, found |-> FALSE, driver_ok |-> FALSE, init_res |-> "none",
     events |-> <<>>, queues |-> <<>>]

DrvInit(kind) ==
    /\ drv = DriverNew(kind)
    /\ drvLast = [op |-> "boot", res |-> "none", env |-> <<>>]

\* The boot calls init; a second call returns the stored report.
DriverInit ==
    /\ IF drv.initialized
       THEN /\ drv' = drv
            /\ drvLast' = [drvLast EXCEPT !.op = "init", !.res = drv.init_res]
       ELSE \E env \in Envs(drv.kind) :
                /\ drv' = init_driver(drv, env)
                /\ drvLast' = [op |-> "init", res |-> drv'.init_res, env |-> env]
    /\ UNCHANGED notDrv

\* read_sector / write_sector, transmit_frame, submit_pcm_i16: refused
\* unless the driver is ready.
DriverOperation ==
    /\ drvLast' = [drvLast EXCEPT !.op = "io",
                                  !.res = IF drv.ready THEN "Accepted" ELSE "NotReady"]
    /\ UNCHANGED <<drv, notDrv>>

DrvNext == DriverInit \/ DriverOperation

(***************************************************************************)
(* The cooperative scheduler.  Ticks are u64 in the kernel; here they      *)
(* saturate at TICK_MAX as saturating_add does at u64::MAX.                *)
(***************************************************************************)
MAX_TASKS == 4
TICK_MAX == 120
INIT_FIRST_SLEEP == 25
INIT_SECOND_SLEEP == 80
SHELL_IDLE_SLEEP == 20
USER_SHELL_SCRIPT_LEN == 0

Slots == 0..(MAX_TASKS - 1)
\* exit_code is the code of TaskState::Exited; NO_CODE stands for the states
\* that carry none.
NO_CODE == -1
NoTask ==
    [kind |-> "None", state |-> "None", until_tick |-> 0, started |-> FALSE, step |-> 0,
     exit_code |-> NO_CODE]
TaskNew(kind) ==
    [kind |-> kind, state |-> "Ready", until_tick |-> 0, started |-> FALSE, step |-> 0,
     exit_code |-> NO_CODE]

saturating_add(a, b) == Min(a + b, TICK_MAX)

\* The mutation of wake_sleeping that promotes one tick late.
wake_sleeping_late(tasks, now_ticks) ==
    [i \in Slots |->
        IF tasks[i].state = "Sleeping" /\ now_ticks > tasks[i].until_tick
        THEN [tasks[i] EXCEPT !.state = "Ready"] ELSE tasks[i]]

wake_sleeping(tasks, now_ticks) ==
    [i \in Slots |->
        IF tasks[i].state = "Sleeping" /\ now_ticks >= tasks[i].until_tick
        THEN [tasks[i] EXCEPT !.state = "Ready"] ELSE tasks[i]]

\* dispatch_syscall(SYS_SLEEP): the delta is at least one tick.
sys_sleep(task, ticks, now_ticks) ==
    [task EXCEPT !.state = "Sleeping",
                 !.until_tick = saturating_add(now_ticks, Max(ticks, 1))]

sys_exit(task, code) == [task EXCEPT !.state = "Exited", !.exit_code = code]

\* The mutation of run_init_task whose last arm sleeps again.
run_init_task_sleeps(task, now_ticks) ==
    IF ~task.started
    THEN sys_sleep([task EXCEPT !.started = TRUE], INIT_FIRST_SLEEP, now_ticks)
    ELSE IF task.step = 0 THEN [task EXCEPT !.step = 1]
    ELSE IF task.step = 1
    THEN sys_sleep([task EXCEPT !.step = 2], INIT_SECOND_SLEEP, now_ticks)
    ELSE sys_sleep(task, INIT_SECOND_SLEEP, now_ticks)

run_init_task(task, now_ticks) ==
    IF ~task.started
    THEN sys_sleep([task EXCEPT !.started = TRUE], INIT_FIRST_SLEEP, now_ticks)
    ELSE IF task.step = 0 THEN [task EXCEPT !.step = 1]
    ELSE IF task.step = 1
    THEN sys_sleep([task EXCEPT !.step = 2], INIT_SECOND_SLEEP, now_ticks)
    ELSE sys_exit(task, 0)

\* The shell reads one byte of the input script; the script is empty, so
\* the read returns 0 and the shell sleeps.
run_shell_task(task, now_ticks) ==
    IF ~task.started THEN [task EXCEPT !.started = TRUE]
    ELSE IF USER_SHELL_SCRIPT_LEN > 0 THEN task
    ELSE sys_sleep(task, SHELL_IDLE_SLEEP, now_ticks)

run_task(task, now_ticks) ==
    IF task.kind = "Init" THEN run_init_task(task, now_ticks)
    ELSE run_shell_task(task, now_ticks)

\* The mutation of the scan that runs the first task whatever its state.
RECURSIVE ScanAnyState(_, _, _)
ScanAnyState(s, n, now_ticks) ==
    IF n = 0 THEN [s |-> s, ran |-> -1]
    ELSE LET index == s.cursor % MAX_TASKS
             s1 == [s EXCEPT !.cursor = (s.cursor + 1) % MAX_TASKS]
         IN  IF s.tasks[index].kind = "None" THEN ScanAnyState(s1, n - 1, now_ticks)
             ELSE [s |-> [s1 EXCEPT !.tasks[index] = run_task(s.tasks[index], now_ticks)],
                   ran |-> index]

\* The loop of run_once with n iterations left: scheduler afterwards and
\* the slot that ran, or -1.
RECURSIVE Scan(_, _, _)
Scan(s, n, now_ticks) ==
    IF n = 0 THEN [s |-> s, ran |-> -1]
    ELSE LET index == s.cursor % MAX_TASKS
             s1 == [s EXCEPT !.cursor = (s.cursor + 1) % MAX_TASKS]
         IN  IF s.tasks[index].kind = "None" THEN Scan(s1, n - 1, now_ticks)
             ELSE IF s.tasks[index].state /= "Ready" THEN Scan(s1, n - 1, now_ticks)
             ELSE [s |-> [s1 EXCEPT !.tasks[index] = run_task(s.tasks[index], now_ticks)],
                   ran |-> index]

run_once(s, now_ticks) ==
    Scan([s EXCEPT !.tasks = wake_sleeping(s.tasks, now_ticks)], MAX_TASKS, now_ticks)

\* Scheduler::init: the init task and the shell task in the first two slots.
ProcInit ==
    /\ sched = [cursor |-> 0,
                tasks |-> [i \in Slots |-> IF i = 0 THEN TaskNew("Init")
                                           ELSE IF i = 1 THEN TaskNew("Shell")
                                           ELSE NoTask]]
    /\ procLast = [now |-> 0, calls |-> 0, ran |-> -1, cursor |-> 0,
                   before |-> [i \in Slots |-> NoTask],
                   woken |-> [i \in Slots |-> NoTask],
                   waited |-> [i \in Slots |-> 0]]

TickSteps == {0, 1, 19, 60}

\* One pass of the main loop, d ticks after the last one.
RunOnceAfter(d) ==
    LET now_ticks == saturating_add(procLast.now, d)
        woken == wake_sleeping(sched.tasks, now_ticks)
        r == run_once(sched, now_ticks)
    IN  /\ sched' = r.s
        /\ procLast' = [now |-> now_ticks, calls |-> Min(procLast.calls + 1, MAX_TASKS),
                        ran |-> r.ran, cursor |-> sched.cursor,
                        before |-> sched.tasks, woken |-> woken,
                        waited |-> [i \in Slots |->
                            IF woken[i].state = "Ready" /\ r.ran /= i
                            THEN Min(procLast.waited[i] + 1, MAX_TASKS + 1)
                            ELSE 0]]
        /\ UNCHANGED notProc

\* One pass of the main loop: run_once(time::ticks()).
RunOnce == \E d \in TickSteps : RunOnceAfter(d)

\* A pass of the main loop that sees the tick counter advanced.
RunOnceLater == \E d \in TickSteps \ {0} : RunOnceAfter(d)

ProcNext == RunOnce

(***************************************************************************)
(* The network stack.  An IPv4 address is a tuple of four octets.          *)
(***************************************************************************)
LOCAL_IP == <<10, 0, 2, 15>>
LOCAL_NETMASK == <<255, 255, 255, 0>>
LOCAL_GATEWAY == <<10, 0, 2, 2>>
IP_ZERO == <<0, 0, 0, 0>>
MaxRoutes == 3

\* The bitwise AND of two octets, bit by bit from the lowest.
RECURSIVE BitAnd(_, _)
BitAnd(a, b) ==
    IF a = 0 \/ b = 0 THEN 0
    ELSE (a % 2) * (b % 2) + 2 * BitAnd(a \div 2, b \div 2)

\* The mutation of in_same_subnet that compares the first three octets only.
in_same_subnet_3(n, other) ==
    /\ BitAnd(n.ipv4[1], n.netmask[1]) = BitAnd(other[1], n.netmask[1])
    /\ BitAnd(n.ipv4[2], n.netmask[2]) = BitAnd(other[2], n.netmask[2])
    /\ BitAnd(n.ipv4[3], n.netmask[3]) = BitAnd(other[3], n.netmask[3])

in_same_subnet(n, other) ==
    /\ BitAnd(n.ipv4[1], n.netmask[1]) = BitAnd(other[1], n.netmask[1])
    /\ BitAnd(n.ipv4[2], n.netmask[2]) = BitAnd(other[2], n.netmask[2])
    /\ BitAnd(n.ipv4[3], n.netmask[3]) = BitAnd(other[3], n.netmask[3])
    /\ BitAnd(n.ipv4[4], n.netmask[4]) = BitAnd(other[4], n.netmask[4])

\* The state afterwards and the next hop returned.
select_next_hop(n, dst_ip) ==
    IF dst_ip = n.ipv4 \/ in_same_subnet(n, dst_ip) \/ n.gateway = IP_ZERO
    THEN [n |-> [n EXCEPT !.route_direct = @ + 1], hop |-> dst_ip]
    ELSE [n |-> [n EXCEPT !.route_gateway = @ + 1], hop |-> n.gateway]

MAX_RX_FRAME == 2048
MAX_TX_FRAME == 1536
UDP_MAILBOX_CAP == 512
UDP_ECHO_PORT == 7777
UDP_DHCP_SERVER_PORT == 67
UDP_DHCP_CLIENT_PORT == 68
IP_BROADCAST == <<255, 255, 255, 255>>
DHCP_MSG_OFFER == 2
DHCP_MSG_ACK == 5

\* A byte string: len bytes of which byte i is (seed + i) % 256.  Two such
\* strings are equal exactly when the records are, and a prefix keeps the
\* seed.
Bytes(seed, len) == [kind |-> "bytes", seed |-> (IF len = 0 THEN 0 ELSE seed), len |-> len]
NoBytes == Bytes(0, 0)

\* data[..k]
Take(data, k) == Bytes(data.seed, Min(k, data.len))

DhcpOfferEmpty ==
    [valid |-> FALSE, ip |-> IP_ZERO, netmask |-> IP_ZERO, gateway |-> IP_ZERO,
     dns |-> IP_ZERO, server_id |-> IP_ZERO]

\* PendingHttpCurl::empty.  response is the content of response[..response_len]
\* as runs of the peer's sequence space: a run [seq, len] stands for the len
\* bytes the peer sent under the sequence numbers seq, seq + 1, ...  The
\* status code parsed from the bytes is left out.
PendingHttpEmpty ==
    [active |-> FALSE, remote_ip |-> IP_ZERO, remote_port |-> 0, local_port |-> 0,
     seq_next |-> 0, ack_next |-> 0, established |-> FALSE, sent_request |-> FALSE,
     finished |-> FALSE, response_len |-> 0, response |-> <<>>]

PendingPingEmpty ==
    [active |-> FALSE, ident |-> 0, seq |-> 0, target |-> IP_ZERO,
     start_tick |-> 0, reply_tick |-> 0]

UdpMailboxEmpty ==
    [valid |-> FALSE, src_ip |-> IP_ZERO, src_port |-> 0, dst_port |-> 0, data |-> NoBytes]

\* NetState as try_init has it once the queues are set up and ready is set
\* (net/mod.rs 624), with the addresses of one lease.  pc is the position of
\* the kernel in a blocking call of the stack, now is time::ticks().  The
\* statistics counters other than the route counters, the IP identification
\* counter and the ARP table are left out.
NetNew(ipv4, netmask, gateway) ==
    [ready |-> TRUE, panicked |-> FALSE, pc |-> "idle", now |-> 0, start |-> 0,
     ipv4 |-> ipv4, netmask |-> netmask, gateway |-> gateway, dns |-> IP_ZERO,
     config_source |-> "Static",
     route_direct |-> 0, route_gateway |-> 0,
     last_udp |-> UdpMailboxEmpty, udp_mailbox |-> UdpMailboxEmpty,
     dhcp_xid |-> 0, dhcp_offer |-> DhcpOfferEmpty, dhcp_bound |-> FALSE,
     pending_http |-> PendingHttpEmpty,
     pending_ping |-> PendingPingEmpty, next_ping_seq |-> 1]

NetLastNone == [op |-> "none"]
NoDatagram == [none |-> TRUE]
NetHistNone ==
    [unread |-> NoDatagram, latest |-> NoDatagram, stored |-> 0, dhcp |-> "none",
     tcp_base |-> 0, segments |-> 0, peer_end |-> 0, peer_fin |-> -1,
     ping_matched |-> FALSE, ping_match_tick |-> 0]

NetInit(leases) ==
    /\ \E l \in leases : net = NetNew(l[1], l[2], l[3])
    /\ netLast = NetLastNone
    /\ netHist = NetHistNone

\* Addresses, masks and gateways a lease may carry.
RouteOwn == {LOCAL_IP, <<192, 168, 1, 77>>}
RouteMasks == {LOCAL_NETMASK, <<255, 255, 0, 0>>, <<255, 255, 255, 240>>,
               <<255, 0, 255, 0>>, IP_ZERO}
RouteGateways == {IP_ZERO, LOCAL_GATEWAY, <<192, 168, 1, 1>>}
RouteLeases == RouteOwn \X RouteMasks \X RouteGateways
RouteDsts == RouteOwn \cup RouteGateways
                 \cup {<<10, 0, 2, 17>>, <<10, 0, 3, 15>>, <<10, 9, 2, 15>>, <<8, 8, 8, 8>>}

\* A send path asks for the next hop towards dst_ip.
SelectNextHop ==
    /\ net.route_direct + net.route_gateway < MaxRoutes
    /\ \E dst_ip \in RouteDsts :
        LET r == select_next_hop(net, dst_ip)
        IN  /\ net' = r.n
            /\ netLast' = [op |-> "route", dst_ip |-> dst_ip, hop |-> r.hop,
                           before |-> net]
    /\ UNCHANGED <<netHist, notNet>>

RouteNext == SelectNextHop

\* transmit_frame: tx_done says whether the device reports the frame used
\* within MAX_POLL_SPINS reads.
transmit_frame(n, frame_len, tx_done) ==
    IF ~n.ready THEN "NotReady"
    ELSE IF frame_len > MAX_TX_FRAME THEN "FrameTooLarge"
    ELSE IF tx_done THEN "Ok" ELSE "IoTimeout"

\* The result and the datagrams put on the wire.  The copy into the
\* MAX_TX_FRAME-byte array comes before any length check and panics when
\* the slice does not fit.
send_udp_packet_with_src(n, dst_ip, dst_port, src_port, src_ip, payload, tx_done) ==
    LET udp_len == 8 + payload.len
        total_len == 20 + udp_len
    IN  IF udp_len > MAX_TX_FRAME THEN [res |-> "panic", sent |-> <<>>]
        ELSE IF total_len > MAX_TX_FRAME - 14
        THEN [res |-> "FrameTooLarge", sent |-> <<>>]
        ELSE LET r == transmit_frame(n, 14 + total_len, tx_done)
             IN  [res |-> r,
                  sent |-> IF r = "Ok"
                           THEN <<[src_ip |-> src_ip, src_port |-> src_port,
                                   dst_ip |-> dst_ip, dst_port |-> dst_port,
                                   data |-> payload]>>
                           ELSE <<>>]

send_udp_packet(n, dst_ip, dst_port, src_port, payload, tx_done) ==
    send_udp_packet_with_src(n, dst_ip, dst_port, src_port, n.ipv4, payload, tx_done)

\* The options of a message are given parsed: an option that is absent is
\* the zero address.
handle_dhcp_message(n, src_ip, m) ==
    IF m.kind /= "dhcp" THEN n
    ELSE IF m.len < 240 \/ m.op /= 2 THEN n
    ELSE IF n.dhcp_xid = 0 \/ m.xid /= n.dhcp_xid THEN n
    ELSE IF ~m.cookie THEN n
    ELSE LET server_id == IF m.server_id = IP_ZERO THEN src_ip ELSE m.server_id
             fallback == n.dhcp_offer
         IN  IF m.msg_type = DHCP_MSG_OFFER
             THEN [n EXCEPT !.dhcp_offer =
                     [valid |-> TRUE, ip |-> m.yiaddr,
                      netmask |-> IF m.netmask = IP_ZERO THEN LOCAL_NETMASK ELSE m.netmask,
                      gateway |-> IF m.gateway = IP_ZERO THEN LOCAL_GATEWAY ELSE m.gateway,
                      dns |-> m.dns, server_id |-> server_id]]
             ELSE IF m.msg_type /= DHCP_MSG_ACK THEN n
             ELSE [n EXCEPT
                     !.ipv4 = IF m.yiaddr /= IP_ZERO THEN m.yiaddr
                              ELSE IF fallback.valid THEN fallback.ip ELSE n.ipv4,
                     !.netmask = IF m.netmask /= IP_ZERO THEN m.netmask
                                 ELSE IF fallback.valid THEN fallback.netmask
                                 ELSE LOCAL_NETMASK,
                     !.gateway = IF m.gateway /= IP_ZERO THEN m.gateway
                                 ELSE IF fallback.valid THEN fallback.gateway
                                 ELSE LOCAL_GATEWAY,
                     !.dns = IF m.dns /= IP_ZERO THEN m.dns
                             ELSE IF fallback.valid THEN fallback.dns ELSE IP_ZERO,
                     !.config_source = "Dhcp",
                     !.dhcp_bound = TRUE,
                     !.dhcp_xid = 0,
                     !.dhcp_offer = DhcpOfferEmpty]

\* The mutation of handle_udp that records the datagram before it looks at
\* the ports.
handle_udp_records_first(n, d, tx_done) ==
    IF ~d.len_ok THEN [n |-> n, res |-> "Ok", sent |-> <<>>]
    ELSE LET slot == [valid |-> TRUE, src_ip |-> d.src_ip, src_port |-> d.src_port,
                      dst_port |-> d.dst_port,
                      data |-> Take(d.data, UDP_MAILBOX_CAP)]
             n1 == [n EXCEPT !.last_udp = [slot EXCEPT !.data = Take(d.data, 64)],
                             !.udp_mailbox = slot]
         IN  IF d.src_port = UDP_DHCP_SERVER_PORT /\ d.dst_port = UDP_DHCP_CLIENT_PORT
             THEN [n |-> handle_dhcp_message(n1, d.src_ip, d.data), res |-> "Ok",
                   sent |-> <<>>]
             ELSE IF d.dst_port = UDP_ECHO_PORT
             THEN LET r == send_udp_packet(n1, d.src_ip, d.src_port, UDP_ECHO_PORT,
                                           d.data, tx_done)
                  IN  [n |-> [n1 EXCEPT !.panicked = (r.res = "panic")],
                       res |-> r.res, sent |-> r.sent]
             ELSE [n |-> n1, res |-> "Ok", sent |-> <<>>]

\* A datagram d as handle_ipv4 hands it over: d.len_ok says that the UDP
\* header is complete and its length field lies within the IP payload.
handle_udp(n, d, tx_done) ==
    IF ~d.len_ok THEN [n |-> n, res |-> "Ok", sent |-> <<>>]
    ELSE IF d.src_port = UDP_DHCP_SERVER_PORT /\ d.dst_port = UDP_DHCP_CLIENT_PORT
    THEN [n |-> handle_dhcp_message(n, d.src_ip, d.data), res |-> "Ok", sent |-> <<>>]
    ELSE LET slot == [valid |-> TRUE, src_ip |-> d.src_ip, src_port |-> d.src_port,
                      dst_port |-> d.dst_port,
                      data |-> Take(d.data, UDP_MAILBOX_CAP)]
             n1 == [n EXCEPT !.last_udp = [slot EXCEPT !.data = Take(d.data, 64)],
                             !.udp_mailbox = slot]
         IN  IF d.dst_port = UDP_ECHO_PORT
             THEN LET r == send_udp_packet(n1, d.src_ip, d.src_port, UDP_ECHO_PORT,
                                           d.data, tx_done)
                  IN  [n |-> [n1 EXCEPT !.panicked = (r.res = "panic")],
                       res |-> r.res, sent |-> r.sent]
             ELSE [n |-> n1, res |-> "Ok", sent |-> <<>>]

\* handle_ipv4 for a well-formed IPv4 packet that carries UDP.
handle_ipv4_udp(n, d, tx_done) ==
    IF d.dst_ip /= n.ipv4 /\ d.dst_ip /= IP_BROADCAST
    THEN [n |-> n, res |-> "Ok", sent |-> <<>>]
    ELSE handle_udp(n, d, tx_done)

\* The mutation of pop_udp_mailbox that leaves the slot valid.
pop_udp_mailbox_keep(n, dst_len) ==
    IF ~n.udp_mailbox.valid THEN [n |-> n, meta |-> NoDatagram]
    ELSE [n |-> n,
          meta |-> [src_ip |-> n.udp_mailbox.src_ip, src_port |-> n.udp_mailbox.src_port,
                    dst_port |-> n.udp_mailbox.dst_port,
                    data |-> Take(n.udp_mailbox.data, dst_len)]]

\* The state afterwards and the datagram handed to the caller: its
\* addresses and the bytes copied into the caller's buffer of dst_len bytes.
pop_udp_mailbox(n, dst_len) ==
    IF ~n.udp_mailbox.valid THEN [n |-> n, meta |-> NoDatagram]
    ELSE [n |-> [n EXCEPT !.udp_mailbox.valid = FALSE],
          meta |-> [src_ip |-> n.udp_mailbox.src_ip, src_port |-> n.udp_mailbox.src_port,
                    dst_port |-> n.udp_mailbox.dst_port,
                    data |-> Take(n.udp_mailbox.data, dst_len)]]

udp_recv(n, dst_len) ==
    IF ~n.ready THEN [n |-> n, res |-> "NotReady", meta |-> NoDatagram]
    ELSE LET r == pop_udp_mailbox(n, dst_len)
         IN  [n |-> r.n, res |-> "Ok", meta |-> r.meta]

\* The datagrams the peers send: payloads at and around the mailbox
\* capacity, the largest echo that fits a TX frame, the largest UDP slice
\* that fits the TX array and the largest payload an RX frame carries.
UdpLens == {4, UDP_MAILBOX_CAP + 1, MAX_TX_FRAME - 42, MAX_TX_FRAME - 41,
            MAX_RX_FRAME - 42}
UdpPayloads == {NoBytes} \cup {Bytes(65, len) : len \in UdpLens}
UdpPorts == {<<9000, UDP_ECHO_PORT>>, <<9000, 5000>>,
             <<UDP_DHCP_SERVER_PORT, UDP_DHCP_CLIENT_PORT>>,
             <<UDP_DHCP_SERVER_PORT, UDP_ECHO_PORT>>}
Datagram(src_ip, dst_ip, src_port, dst_port, data, len_ok) ==
    [src_ip |-> src_ip, dst_ip |-> dst_ip, src_port |-> src_port, dst_port |-> dst_port,
     data |-> data, len_ok |-> len_ok]
UdpDatagrams ==
    {Datagram(src_ip, LOCAL_IP, ports[1], ports[2], data, TRUE) :
        src_ip \in {LOCAL_GATEWAY, <<1, 2, 3, 4>>}, ports \in UdpPorts,
        data \in UdpPayloads}
    \cup {Datagram(LOCAL_GATEWAY, IP_BROADCAST, 9000, UDP_ECHO_PORT, Bytes(66, 4), TRUE),
          Datagram(LOCAL_GATEWAY, <<10, 0, 2, 16>>, 9000, UDP_ECHO_PORT, Bytes(67, 4), TRUE),
          Datagram(LOCAL_GATEWAY, LOCAL_IP, 9000, UDP_ECHO_PORT, Bytes(68, 4), FALSE)}
RecvBufferLens == {0, 4, UDP_MAILBOX_CAP, 2 * UDP_MAILBOX_CAP}

ForUs(n, d) == d.len_ok /\ (d.dst_ip = n.ipv4 \/ d.dst_ip = IP_BROADCAST)

\* poll takes one UDP frame from the RX queue and processes it.
ReceiveUdp ==
    /\ net.ready /\ ~net.panicked
    /\ \E d \in UdpDatagrams, tx_done \in BOOLEAN :
        LET r == handle_ipv4_udp(net, d, tx_done)
            stored == d.src_port /= UDP_DHCP_SERVER_PORT
                          \/ d.dst_port /= UDP_DHCP_CLIENT_PORT
        IN  /\ net' = r.n
            /\ netLast' = [op |-> "rx_udp", d |-> d, tx_done |-> tx_done,
                           res |-> r.res, sent |-> r.sent]
            /\ netHist' = IF ~ForUs(net, d) THEN netHist
                          ELSE [netHist EXCEPT !.latest = d,
                                               !.unread = IF stored THEN d ELSE @,
                                               !.stored = IF stored THEN Min(@ + 1, 2)
                                                          ELSE @]
    /\ UNCHANGED notNet

\* A task calls udp_recv with a buffer of dst_len bytes.
UdpRecv ==
    /\ ~net.panicked
    /\ \E dst_len \in RecvBufferLens :
        LET r == udp_recv(net, dst_len)
        IN  /\ net' = r.n
            /\ netLast' = [op |-> "udp_recv", dst_len |-> dst_len, res |-> r.res,
                           meta |-> r.meta, unread |-> netHist.unread,
                           latest |-> netHist.latest, stored |-> netHist.stored]
            /\ netHist' = [netHist EXCEPT !.unread = NoDatagram, !.latest = NoDatagram,
                                          !.stored = 0]
    /\ UNCHANGED notNet

UdpNext == ReceiveUdp \/ UdpRecv

DHCP_WAIT_TICKS == 400
DhcpTickStep == 100
DhcpXid == 4242

\* A DHCP server message with its options parsed.
DhcpMsg(len, msg_type, xid, yiaddr, netmask, gateway) ==
    [kind |-> "dhcp", len |-> len, op |-> 2, cookie |-> TRUE, msg_type |-> msg_type,
     xid |-> xid, yiaddr |-> yiaddr, netmask |-> netmask, gateway |-> gateway,
     dns |-> IP_ZERO, server_id |-> IP_ZERO]

\* The frames that may arrive while the stack polls: offers, acknowledgements
\* and negative acknowledgements (type 6) for our transaction and for
\* another, with and without an address and options, a message cut short
\* and an unrelated datagram.
DhcpFrames ==
    {Datagram(LOCAL_GATEWAY, IP_BROADCAST, UDP_DHCP_SERVER_PORT, UDP_DHCP_CLIENT_PORT,
              DhcpMsg(300, t, x, o[1], o[2], o[3]), TRUE) :
        t \in {DHCP_MSG_OFFER, DHCP_MSG_ACK, 6}, x \in {DhcpXid, DhcpXid + 1},
        o \in {<<IP_ZERO, IP_ZERO, IP_ZERO>>,
               <<<<10, 1, 2, 34>>, <<255, 255, 0, 0>>, <<10, 1, 2, 1>>>>}}
    \cup {Datagram(LOCAL_GATEWAY, IP_BROADCAST, UDP_DHCP_SERVER_PORT, UDP_DHCP_CLIENT_PORT,
                   DhcpMsg(100, DHCP_MSG_ACK, DhcpXid, <<10, 1, 2, 34>>, IP_ZERO, IP_ZERO),
                   TRUE),
          Datagram(LOCAL_GATEWAY, LOCAL_IP, 9000, 5000, Bytes(65, 4), TRUE)}

\* The frames one call of poll finds in the RX queue: none, one or two.
RxBatches == {<<>>} \cup {<<f>> : f \in DhcpFrames} \cup (DhcpFrames \X DhcpFrames)

\* poll: every frame of the batch goes through handle_ipv4; an error of a
\* handler is dropped.
RECURSIVE poll(_, _)
poll(n, batch) ==
    IF ~n.ready \/ batch = <<>> THEN n
    ELSE poll(handle_ipv4_udp(n, Head(batch), TRUE).n, Tail(batch))

\* send_dhcp_discover and send_dhcp_request: a 249- or 261-byte message
\* from 0.0.0.0:68 to 255.255.255.255:67.
send_dhcp(n, len, tx_done) ==
    send_udp_packet_with_src(n, IP_BROADCAST, UDP_DHCP_SERVER_PORT, UDP_DHCP_CLIENT_PORT,
                             IP_ZERO, Bytes(1, len), tx_done).res

\* try_init after try_dhcp has returned res: the static configuration
\* source unless bound; init clears ready when try_init returns an error.
after_try_dhcp(n, res) ==
    IF res = "Err" THEN [n EXCEPT !.pc = "idle", !.ready = FALSE]
    ELSE IF res = "Ok(false)" THEN [n EXCEPT !.pc = "idle", !.config_source = "Static"]
    ELSE [n EXCEPT !.pc = "idle"]

\* try_dhcp up to the first wait loop.
TryDhcp ==
    /\ net.pc = "try_dhcp"
    /\ \E xid \in {0, DhcpXid}, tx_done \in BOOLEAN :
        LET n1 == [net EXCEPT !.config_source = "Static", !.dhcp_bound = FALSE,
                              !.dhcp_offer = DhcpOfferEmpty, !.dhcp_xid = xid]
            sent == send_dhcp(n1, 249, tx_done)
        IN  IF sent /= "Ok"
            THEN /\ net' = after_try_dhcp(n1, "Err")
                 /\ netHist' = [netHist EXCEPT !.dhcp = "SendError"]
                 /\ netLast' = [op |-> "init", res |-> sent]
            ELSE /\ net' = [n1 EXCEPT !.pc = "offer_wait", !.start = n1.now]
                 /\ UNCHANGED <<netHist, netLast>>
    /\ UNCHANGED notNet

\* One iteration of a wait loop of try_dhcp: poll, then the test that ends
\* the loop.
DhcpWaitPoll ==
    /\ net.pc \in {"offer_wait", "ack_wait"}
    /\ net.now - net.start < DHCP_WAIT_TICKS
    /\ \E batch \in RxBatches, tx_done \in BOOLEAN :
        LET n1 == poll(net, batch)
        IN  IF net.pc = "offer_wait"
            THEN IF ~n1.dhcp_offer.valid
                 THEN /\ net' = n1
                      /\ UNCHANGED <<netHist, netLast>>
                 ELSE LET sent == send_dhcp(n1, 261, tx_done)
                      IN  IF sent /= "Ok"
                          THEN /\ net' = after_try_dhcp(n1, "Err")
                               /\ netHist' = [netHist EXCEPT !.dhcp = "SendError"]
                               /\ netLast' = [op |-> "init", res |-> sent]
                          ELSE /\ net' = [n1 EXCEPT !.pc = "ack_wait", !.start = n1.now]
                               /\ UNCHANGED <<netHist, netLast>>
            ELSE IF n1.dhcp_bound
                 THEN /\ net' = after_try_dhcp(n1, "Ok(true)")
                      /\ netHist' = [netHist EXCEPT !.dhcp = "Bound"]
                      /\ netLast' = [op |-> "init", res |-> "Ok"]
                 ELSE /\ net' = n1
                      /\ UNCHANGED <<netHist, netLast>>
    /\ UNCHANGED notNet

\* The timer interrupt advances time::ticks() while the stack waits.
DhcpTick ==
    /\ net.pc \in {"offer_wait", "ack_wait"}
    /\ net.now - net.start < DHCP_WAIT_TICKS
    /\ net' = [net EXCEPT !.now = @ + DhcpTickStep]
    /\ UNCHANGED <<netHist, netLast, notNet>>

\* A wait loop of try_dhcp ends because DHCP_WAIT_TICKS have passed.
DhcpTimeout ==
    /\ net.pc \in {"offer_wait", "ack_wait"}
    /\ net.now - net.start >= DHCP_WAIT_TICKS
    /\ net' = after_try_dhcp([net EXCEPT !.dhcp_xid = 0,
                                         !.dhcp_offer = IF net.pc = "ack_wait"
                                                        THEN DhcpOfferEmpty ELSE @],
                             "Ok(false)")
    /\ netHist' = [netHist EXCEPT !.dhcp = IF net.pc = "offer_wait" THEN "NoOffer"
                                           ELSE "NoAck"]
    /\ netLast' = [op |-> "init", res |-> "Ok"]
    /\ UNCHANGED notNet

\* The main loop polls the stack after init has returned.
PollAfterInit ==
    /\ net.pc = "idle" /\ net.ready
    /\ \E batch \in RxBatches :
        /\ net' = poll(net, batch)
        /\ netLast' = [op |-> "poll", frames |-> Len(batch)]
    /\ UNCHANGED <<netHist, notNet>>

DhcpNext == TryDhcp \/ DhcpWaitPoll \/ DhcpTick \/ DhcpTimeout \/ PollAfterInit

CURL_HTTP_BUF == 2048
SEQ_MOD == 65536
MaxSegments == 3
TCP_FLAGS == {"FIN", "SYN", "RST", "PSH", "ACK"}

\* u32::wrapping_add in the scaled sequence space.
wrapping_add(a, b) == (a + b) % SEQ_MOD

\* response[start..end].copy_from_slice(&data[..copy_len]) for data sent
\* under the sequence number seq.
AppendRun(response, seq, copy_len) ==
    IF response /= <<>>
        /\ wrapping_add(response[Len(response)].seq, response[Len(response)].len) = seq
    THEN [response EXCEPT ![Len(response)].len = @ + copy_len]
    ELSE Append(response, [seq |-> seq, len |-> copy_len])

\* The result and the segments put on the wire.
send_pending_tcp_segment(n, seq, ack, flags, payload_len, tx_done) ==
    IF payload_len > MAX_TX_FRAME - 40 THEN [res |-> "FrameTooLarge", sent |-> <<>>]
    ELSE IF ~n.pending_http.active THEN [res |-> "NotReady", sent |-> <<>>]
    ELSE IF 20 + 20 + payload_len > MAX_TX_FRAME - 14
    THEN [res |-> "FrameTooLarge", sent |-> <<>>]
    ELSE LET r == transmit_frame(n, 14 + 20 + 20 + payload_len, tx_done)
         IN  [res |-> r,
              sent |-> IF r = "Ok"
                       THEN <<[seq |-> seq, ack |-> ack, flags |-> flags,
                               len |-> payload_len]>>
                       ELSE <<>>]

\* The data part of handle_tcp (net/mod.rs 1042-1072).
tcp_data(n, g, tx_done) ==
    IF g.len = 0 THEN [n |-> n, sent |-> <<>>]
    ELSE LET h == n.pending_http
             available == Max(CURL_HTTP_BUF - h.response_len, 0)
             copy_len == Min(g.len, available)
             h1 == IF g.seq /= h.ack_next THEN h
                   ELSE [h EXCEPT !.response = IF copy_len > 0
                                                 THEN AppendRun(@, g.seq, copy_len) ELSE @,
                                  !.response_len = @ + copy_len,
                                  !.ack_next = wrapping_add(@, g.len)]
             n1 == [n EXCEPT !.pending_http = h1]
         IN  [n |-> n1,
              sent |-> send_pending_tcp_segment(n1, h1.seq_next, h1.ack_next, {"ACK"}, 0,
                                                tx_done).sent]

\* The FIN part of handle_tcp (1074-1083).
tcp_fin(n, g, tx_done) ==
    IF "FIN" \notin g.flags THEN [n |-> n, sent |-> <<>>]
    ELSE LET h1 == [n.pending_http EXCEPT !.ack_next = wrapping_add(@, 1)]
             n1 == [n EXCEPT !.pending_http = h1]
         IN  [n |-> [n1 EXCEPT !.pending_http.finished = TRUE],
              sent |-> send_pending_tcp_segment(n1, h1.seq_next, h1.ack_next, {"ACK"}, 0,
                                                tx_done).sent]

\* A segment g with a complete header: g.from_peer says that its addresses
\* and ports are those of the pending exchange.
handle_tcp(n, g, tx_done) ==
    LET h == n.pending_http
    IN  IF ~h.active \/ ~g.from_peer THEN [n |-> n, sent |-> <<>>]
        ELSE IF "RST" \in g.flags
        THEN [n |-> [n EXCEPT !.pending_http.finished = TRUE], sent |-> <<>>]
        ELSE IF "SYN" \in g.flags /\ "ACK" \in g.flags /\ ~h.established
        THEN IF g.ack /= h.seq_next THEN [n |-> n, sent |-> <<>>]
             ELSE LET n1 == [n EXCEPT !.pending_http.ack_next = wrapping_add(g.seq, 1)]
                  IN  [n |-> [n1 EXCEPT !.pending_http.established = TRUE],
                       sent |-> send_pending_tcp_segment(n1, h.seq_next,
                                    n1.pending_http.ack_next, {"ACK"}, 0, tx_done).sent]
        ELSE IF ~h.established THEN [n |-> n, sent |-> <<>>]
        ELSE LET d == tcp_data(n, g, tx_done)
                 f == tcp_fin(d.n, g, tx_done)
             IN  [n |-> f.n, sent |-> d.sent \o f.sent]

\* The segments that may arrive: at, just before, just after and far from
\* the sequence number expected next, empty, short and as long as an RX
\* frame allows, with the flag combinations handle_tcp tells apart.
SegmentOffsets == {0, 1, 100, SEQ_MOD - 1, SEQ_MOD - 101}
SegmentLens == {0, 1, 100, MAX_RX_FRAME - 54}
SegmentFlags == {{"ACK"}, {"ACK", "PSH", "FIN"}, {"RST"}, {"SYN", "ACK"}}
Segments(n) ==
    {[seq |-> wrapping_add(n.pending_http.ack_next, o), ack |-> a, len |-> l,
      flags |-> fl, from_peer |-> TRUE] :
        o \in SegmentOffsets, l \in SegmentLens, fl \in SegmentFlags,
        a \in {n.pending_http.seq_next}}
    \cup {[seq |-> n.pending_http.ack_next, ack |-> a, len |-> 100,
           flags |-> fl, from_peer |-> fp] :
            fl \in {{"ACK"}, {"SYN", "ACK"}},
            a \in {n.pending_http.seq_next, wrapping_add(n.pending_http.seq_next, 1)},
            fp \in BOOLEAN}

\* The place of a sequence number in the peer's stream: 0 is the first byte
\* after its SYN.
StreamOffset(seq) == (seq - netHist.tcp_base + SEQ_MOD) % SEQ_MOD

\* The peer is a TCP sender with one byte stream, and the network may lose,
\* repeat and reorder its segments: a segment of the peer lies in the
\* stream, no data lies behind the FIN, the FIN lies behind all data sent,
\* and a SYN carries no data and the initial sequence number.
PeerConsistent(g) ==
    \/ ~g.from_peer
    \/ "RST" \in g.flags
    \/ /\ "SYN" \in g.flags
       /\ g.len = 0
       /\ net.pending_http.established => wrapping_add(g.seq, 1) = netHist.tcp_base
    \/ /\ "SYN" \notin g.flags
       /\ net.pending_http.established
       /\ StreamOffset(g.seq) + g.len < SEQ_MOD \div 2
       /\ netHist.peer_fin >= 0 => StreamOffset(g.seq) + g.len <= netHist.peer_fin
       /\ "FIN" \in g.flags =>
              /\ StreamOffset(g.seq) + g.len >= netHist.peer_end
              /\ netHist.peer_fin >= 0 => StreamOffset(g.seq) + g.len = netHist.peer_fin

\* poll, called from the loop of curl_http_roundtrip, takes one TCP segment
\* from the RX queue.
ReceiveSegment ==
    /\ net.pc = "curl"
    /\ netHist.segments < MaxSegments
    /\ \E g \in {x \in Segments(net) : PeerConsistent(x)}, tx_done \in BOOLEAN :
        LET r == handle_tcp(net, g, tx_done)
            data == g.from_peer /\ net.pending_http.established
                        /\ "SYN" \notin g.flags /\ "RST" \notin g.flags
        IN  /\ net' = r.n
            /\ netLast' = [op |-> "rx_tcp", g |-> g, tx_done |-> tx_done, sent |-> r.sent,
                           before |-> net.pending_http]
            /\ netHist' = [netHist EXCEPT
                             !.segments = @ + 1,
                             !.peer_end = IF data THEN Max(@, StreamOffset(g.seq) + g.len)
                                          ELSE @,
                             !.peer_fin = IF data /\ "FIN" \in g.flags
                                          THEN StreamOffset(g.seq) + g.len ELSE @,
                             !.tcp_base = IF ~net.pending_http.established
                                              /\ r.n.pending_http.established
                                          THEN r.n.pending_http.ack_next ELSE @]
    /\ UNCHANGED notNet

\* The loop of curl_http_roundtrip after poll: the request goes out once
\* the connection is established.  A send error returns through `?` and
\* leaves pending_http as it is.
CurlSendRequest ==
    /\ net.pc = "curl"
    /\ net.pending_http.established /\ ~net.pending_http.sent_request
    /\ \E req_len \in {80}, tx_done \in BOOLEAN :
        LET h == net.pending_http
            r == send_pending_tcp_segment(net, h.seq_next, h.ack_next, {"ACK", "PSH"},
                                          req_len, tx_done)
        IN  IF r.res /= "Ok"
            THEN /\ net' = [net EXCEPT !.pc = "idle"]
                 /\ netLast' = [op |-> "curl", res |-> r.res, sent |-> r.sent,
                                before |-> h]
            ELSE /\ net' = [net EXCEPT !.pending_http.seq_next = wrapping_add(@, req_len),
                                       !.pending_http.sent_request = TRUE]
                 /\ netLast' = [op |-> "curl_request", res |-> r.res, sent |-> r.sent,
                                before |-> h]
    /\ UNCHANGED <<netHist, notNet>>

\* The loop ends, because the exchange has finished or CURL_WAIT_TICKS have
\* passed, and the exchange is cleared.
CurlEnd ==
    /\ net.pc = "curl"
    /\ \E tx_done \in BOOLEAN :
        LET h == net.pending_http
            r == IF h.finished THEN [res |-> "Ok", sent |-> <<>>]
                 ELSE send_pending_tcp_segment(net, h.seq_next, h.ack_next,
                                               {"RST", "ACK"}, 0, tx_done)
        IN  /\ net' = [net EXCEPT !.pending_http = PendingHttpEmpty, !.pc = "idle"]
            /\ netLast' = [op |-> "curl",
                           res |-> IF h.response_len > 0 THEN "Ok" ELSE "IoTimeout",
                           sent |-> r.sent, before |-> h]
    /\ UNCHANGED <<netHist, notNet>>

TcpNext == ReceiveSegment \/ CurlSendRequest \/ CurlEnd

PING_IDENTIFIER == 42759
PING_TIMEOUT_TICKS == 300
PingTickStep == 100
MaxPings == 2

\* send_ipv4_packet for an ICMP message of len bytes.
send_icmp(n, dst_ip, len, tx_done) ==
    IF 20 + len > MAX_TX_FRAME - 14 THEN "FrameTooLarge"
    ELSE transmit_frame(n, 14 + 20 + len, tx_done)

\* The mutation of handle_icmp that matches a reply without its sequence
\* number.
handle_icmp_any_seq(n, src_ip, c, ticks, tx_done) ==
    IF c.len < 8 \/ c.code /= 0 THEN n
    ELSE IF c.type = 8 THEN n
    ELSE IF /\ c.type = 0
            /\ n.pending_ping.active
            /\ n.pending_ping.ident = c.ident
            /\ n.pending_ping.target = src_ip
    THEN [n EXCEPT !.pending_ping.reply_tick = ticks, !.pending_ping.active = FALSE]
    ELSE n

\* An ICMP message c from src_ip, processed when time::ticks() is ticks.
\* The echo reply sent for a request changes no field that is modelled.
handle_icmp(n, src_ip, c, ticks, tx_done) ==
    IF c.len < 8 \/ c.code /= 0 THEN n
    ELSE IF c.type = 8 THEN n
    ELSE IF /\ c.type = 0
            /\ n.pending_ping.active
            /\ n.pending_ping.ident = c.ident
            /\ n.pending_ping.seq = c.seq
            /\ n.pending_ping.target = src_ip
    THEN [n EXCEPT !.pending_ping.reply_tick = ticks, !.pending_ping.active = FALSE]
    ELSE n

PingTargets == {LOCAL_GATEWAY, <<8, 8, 8, 8>>}

\* The ICMP messages that may arrive: replies, requests and errors, with our
\* identifier or another, with the sequence number of this ping, of the one
\* before or of the next, from either address, and one cut short.
IcmpFrames ==
    {[src_ip |-> a, type |-> t, code |-> c, ident |-> i, seq |-> n, len |-> 22] :
        a \in PingTargets, t \in {0, 8, 3}, c \in {0, 1},
        i \in {PING_IDENTIFIER, 7}, n \in 1..MaxPings}
    \cup {[src_ip |-> LOCAL_GATEWAY, type |-> 0, code |-> 0, ident |-> PING_IDENTIFIER,
           seq |-> n, len |-> 4] : n \in 1..MaxPings}

\* send_ping up to its wait loop: arp is the result of resolve_arp.
SendPing ==
    /\ net.pc = "idle" /\ net.ready
    /\ net.next_ping_seq <= MaxPings
    /\ \E target \in PingTargets, arp \in {"Ok", "ArpTimeout"}, tx_done \in BOOLEAN :
        LET seq == net.next_ping_seq
            hop == select_next_hop([net EXCEPT !.next_ping_seq = (@ + 1) % 65536], target)
            n1 == hop.n
            n2 == [n1 EXCEPT !.pending_ping =
                       [active |-> TRUE, ident |-> PING_IDENTIFIER, seq |-> seq,
                        target |-> target, start_tick |-> n1.now, reply_tick |-> 0]]
            sent == send_icmp(n2, target, 22, tx_done)
        IN  IF arp /= "Ok"
            THEN /\ net' = n1
                 /\ netLast' = [op |-> "ping", res |-> arp, elapsed |-> 0,
                                start |-> n1.now, sent_request |-> FALSE]
                 /\ UNCHANGED netHist
            ELSE IF sent /= "Ok"
            THEN /\ net' = n2
                 /\ netLast' = [op |-> "ping", res |-> sent, elapsed |-> 0,
                                start |-> n1.now, sent_request |-> FALSE]
                 /\ UNCHANGED netHist
            ELSE /\ net' = [n2 EXCEPT !.pc = "ping", !.start = n2.now]
                 /\ netHist' = [netHist EXCEPT !.ping_matched = FALSE,
                                               !.ping_match_tick = 0]
                 /\ UNCHANGED netLast
    /\ UNCHANGED notNet

\* One iteration of the wait loop of send_ping: the time test, poll with at
\* most one ICMP message, which is processed dt ticks later, and the test
\* for the reply.
PingPoll ==
    /\ net.pc = "ping"
    /\ net.now - net.start < PING_TIMEOUT_TICKS
    /\ \E rx \in {<<>>} \cup {<<c>> : c \in IcmpFrames}, dt \in {0, PingTickStep} :
        LET ticks == net.now + dt
            n0 == [net EXCEPT !.now = ticks]
            n1 == IF rx = <<>> THEN n0
                  ELSE handle_icmp(n0, rx[1].src_ip, rx[1], ticks, TRUE)
            p == n1.pending_ping
            matching == /\ rx /= <<>>
                        /\ rx[1].type = 0 /\ rx[1].code = 0
                        /\ rx[1].len >= 8
                        /\ rx[1].ident = PING_IDENTIFIER
                        /\ rx[1].seq = net.pending_ping.seq
                        /\ rx[1].src_ip = net.pending_ping.target
        IN  /\ netHist' = IF matching
                          THEN [netHist EXCEPT !.ping_matched = TRUE,
                                               !.ping_match_tick = ticks]
                          ELSE netHist
            /\ IF /\ ~p.active
                  /\ p.ident = PING_IDENTIFIER
                  /\ p.seq = net.pending_ping.seq
                  /\ p.reply_tick >= p.start_tick
               THEN /\ net' = [n1 EXCEPT !.pc = "idle"]
                    /\ netLast' = [op |-> "ping", res |-> "Ok",
                                   elapsed |-> p.reply_tick - p.start_tick,
                                   start |-> p.start_tick, sent_request |-> TRUE]
               ELSE /\ net' = n1
                    /\ UNCHANGED netLast
    /\ UNCHANGED notNet

\* The timer interrupt advances time::ticks() while send_ping waits.
PingTick ==
    /\ net.pc = "ping"
    /\ net.now - net.start < PING_TIMEOUT_TICKS
    /\ net' = [net EXCEPT !.now = @ + PingTickStep]
    /\ UNCHANGED <<netHist, netLast, notNet>>

\* The wait loop ends because the budget is used up.
PingTimeout ==
    /\ net.pc = "ping"
    /\ net.now - net.start >= PING_TIMEOUT_TICKS
    /\ net' = [net EXCEPT !.pending_ping.active = FALSE, !.pc = "idle"]
    /\ netLast' = [op |-> "ping", res |-> "IoTimeout", elapsed |-> net.now - net.start,
                   start |-> net.start, sent_request |-> TRUE]
    /\ UNCHANGED <<netHist, notNet>>

PingNext == SendPing \/ PingPoll \/ PingTick \/ PingTimeout

(***************************************************************************)
(* Interrupt handlers and the locks of the main loop.  A handler is the    *)
(* sequence of its steps on one path; a step names what it touches and the *)
(* lock it takes, if any.                                                  *)
(***************************************************************************)
Locks == {"NET_LOCK", "SERIAL_LOCK", "SCHED_LOCK", "FS_LOCK", "STORAGE_LOCK",
          "GLOBAL_ALLOCATOR"}

Port(what) == [kind |-> "port", what |-> what, lock |-> "none"]
Atomic(what) == [kind |-> "atomic", what |-> what, lock |-> "none"]
Memory(what) == [kind |-> "memory", what |-> what, lock |-> "none"]
WithLock(what, lock) == [kind |-> "lock", what |-> what, lock |-> lock]

\* pic::end_of_interrupt
end_of_interrupt(slave) ==
    (IF slave THEN <<Port("outb PIC_2_COMMAND")>> ELSE <<>>) \o <<Port("outb PIC_1_COMMAND")>>

\* push_byte, push_key_event and push_event up to the store of head.
push(queue, full) ==
    <<Atomic(queue \o "_HEAD.load"), Atomic(queue \o "_TAIL.load")>>
    \o (IF full THEN <<Atomic(queue \o "_OVERFLOW.fetch_add")>>
        ELSE <<Memory(queue \o " slot write")>>)

\* The mutation of the timer handler that reports each tick on the serial
\* line, as the breakpoint handler does.
timer_interrupt_handler_logging ==
    <<Atomic("TIMER_TICKS.fetch_add"), WithLock("serial::write_line", "SERIAL_LOCK")>>
    \o end_of_interrupt(FALSE)

timer_interrupt_handler ==
    <<Atomic("TIMER_TICKS.fetch_add")>> \o end_of_interrupt(FALSE)

\* keyboard::handle_scancode for a scancode of class c: the 0xE0 prefix, a
\* shift key, or another key that may map to a key event and to a byte.
handle_scancode(c) ==
    IF c.class = "prefix" THEN <<Atomic("EXTENDED_PREFIX.store")>>
    ELSE <<Atomic("EXTENDED_PREFIX.swap")>>
         \o (IF c.class = "shift" THEN <<Atomic("SHIFT_PRESSED.store")>>
             ELSE (IF c.event
                   THEN push("EVENT_QUEUE", c.event_full)
                        \o (IF c.event_full THEN <<>>
                            ELSE <<Atomic("EVENT_QUEUE_HEAD.store")>>)
                   ELSE <<>>)
                  \o (IF ~c.pressed \/ c.extended THEN <<>>
                      ELSE <<Atomic("SHIFT_PRESSED.load")>>
                           \o (IF c.ascii
                               THEN push("BYTE_QUEUE", c.byte_full)
                                    \o (IF c.byte_full THEN <<>>
                                        ELSE <<Atomic("BYTE_QUEUE_HEAD.store")>>)
                               ELSE <<>>)))

keyboard_interrupt_handler(c) ==
    <<Port("inb 0x60")>> \o handle_scancode(c) \o end_of_interrupt(FALSE)

\* mouse::handle_data_byte for the byte at position c.index of a packet.
handle_data_byte(c) ==
    <<Atomic("BYTES_RX.fetch_add"), Atomic("PACKET_INDEX.load")>>
    \o (IF c.index = 0 /\ ~c.sync THEN <<Atomic("BAD_SYNC.fetch_add")>>
        ELSE <<Memory("PACKET_BYTES write")>>
             \o (IF c.index < 2 THEN <<Atomic("PACKET_INDEX.store")>>
                 ELSE <<Atomic("PACKET_INDEX.store"), Atomic("PACKETS_RX.fetch_add"),
                        Memory("PACKET_BYTES read")>>
                      \o push("EVENT", c.event_full)
                      \o (IF c.event_full THEN <<>>
                          ELSE <<Memory("LAST_EVENT write"),
                                 Atomic("HAS_LAST_EVENT.store"),
                                 Atomic("EVENT_HEAD.store")>>)))

mouse_interrupt_handler(c) ==
    <<Port("inb 0x60")>> \o handle_data_byte(c) \o end_of_interrupt(TRUE)

\* One scancode per path of handle_scancode, and one byte per path of
\* handle_data_byte.
Key(class, event, pressed, extended, ascii, event_full, byte_full) ==
    [class |-> class, event |-> event, pressed |-> pressed, extended |-> extended,
     ascii |-> ascii, event_full |-> event_full, byte_full |-> byte_full]
KeyboardInputs ==
    {Key("prefix", FALSE, TRUE, FALSE, FALSE, FALSE, FALSE),
     Key("shift", FALSE, TRUE, FALSE, FALSE, FALSE, FALSE)}
    \cup {Key("key", e[1], FALSE, FALSE, FALSE, e[2], FALSE) :
            e \in {<<FALSE, FALSE>>, <<TRUE, FALSE>>, <<TRUE, TRUE>>}}
    \cup {Key("key", TRUE, TRUE, TRUE, FALSE, ef, FALSE) : ef \in BOOLEAN}
    \cup {Key("key", e[1], TRUE, FALSE, a[1], e[2], a[2]) :
            e \in {<<FALSE, FALSE>>, <<TRUE, FALSE>>, <<TRUE, TRUE>>},
            a \in {<<FALSE, FALSE>>, <<TRUE, FALSE>>, <<TRUE, TRUE>>}}
MouseInputs ==
    {[index |-> 0, sync |-> sy, event_full |-> FALSE] : sy \in BOOLEAN}
    \cup {[index |-> 1, sync |-> TRUE, event_full |-> FALSE]}
    \cup {[index |-> 2, sync |-> TRUE, event_full |-> ef] : ef \in BOOLEAN}
NoInput == [class |-> "none"]

Handler(kind, input) ==
    IF kind = "timer" THEN timer_interrupt_handler
    ELSE IF kind = "keyboard" THEN keyboard_interrupt_handler(input)
    ELSE mouse_interrupt_handler(input)

IrqInit ==
    irq = [locks |-> {}, handler |-> "none", input |-> NoInput, pc |-> 0,
           blocked |-> FALSE, last |-> [kind |-> "none", held |-> 0]]

\* The main loop takes a lock: SpinLock::lock with interrupts enabled.
MainLock ==
    /\ irq.handler = "none"
    /\ \E l \in Locks \ irq.locks : irq' = [irq EXCEPT !.locks = @ \cup {l}]
    /\ UNCHANGED notIrq

\* The main loop drops a lock guard.
MainUnlock ==
    /\ irq.handler = "none"
    /\ \E l \in irq.locks : irq' = [irq EXCEPT !.locks = @ \ {l}]
    /\ UNCHANGED notIrq

\* An interrupt is delivered; the gate keeps further interrupts off until
\* the handler returns.
Interrupt ==
    /\ irq.handler = "none"
    /\ \/ irq' = [irq EXCEPT !.handler = "timer", !.input = NoInput, !.pc = 1]
       \/ \E c \in KeyboardInputs :
              irq' = [irq EXCEPT !.handler = "keyboard", !.input = c, !.pc = 1]
       \/ \E c \in MouseInputs :
              irq' = [irq EXCEPT !.handler = "mouse", !.input = c, !.pc = 1]
    /\ UNCHANGED notIrq

\* The running handler executes its next step.  A step that takes a lock
\* the interrupted code holds spins: the holder cannot run before the
\* handler returns.
HandlerStep ==
    /\ irq.handler /= "none"
    /\ LET steps == Handler(irq.handler, irq.input)
           step == steps[irq.pc]
       IN  IF step.lock /= "none" /\ step.lock \in irq.locks
           THEN irq' = [irq EXCEPT !.blocked = TRUE]
           ELSE IF irq.pc < Len(steps)
           THEN irq' = [irq EXCEPT !.pc = @ + 1]
           ELSE irq' = [irq EXCEPT !.handler = "none", !.input = NoInput, !.pc = 0,
                                   !.last = [kind |-> irq.handler,
                                             held |-> Cardinality(irq.locks)]]
    /\ UNCHANGED notIrq

IrqNext == MainLock \/ MainUnlock \/ Interrupt \/ HandlerStep

(***************************************************************************)
(* The kernel heap.  Addresses are usize in the kernel; here they end at   *)
(* USIZE_MAX, where checked_add fails, and the heap is scaled to           *)
(* HEAP_SIZE_BYTES bytes from HEAP_START, so that a layout can reach both   *)
(* the end of the heap and the end of the address space.                   *)
(***************************************************************************)
USIZE_MAX == 255
HEAP_START == 64
HEAP_SIZE_BYTES == 96
MaxLive == 3

checked_add_usize(a, b) == IF a + b > USIZE_MAX THEN None ELSE Some(a + b)

align_up_usize(addr, align) ==
    IF align = 0 THEN None
    ELSE IF addr % align = 0 THEN Some(addr)
    ELSE checked_add_usize(addr, align - (addr % align))

\* BumpAllocator::new
HeapNew == [heap_start |-> 0, heap_end |-> 0, next |-> 0, allocations |-> 0,
            initialized |-> FALSE]

\* BumpAllocator::init
init_heap(heap_start, heap_size) ==
    [heap_start |-> heap_start, heap_end |-> Min(heap_start + heap_size, USIZE_MAX),
     next |-> heap_start, allocations |-> 0, initialized |-> TRUE]

\* The mutation of allocate without the test against heap_end.
allocate_unchecked(h, size, align) ==
    IF ~h.initialized THEN [h |-> h, ptr |-> 0]
    ELSE IF size = 0 THEN [h |-> h, ptr |-> 1]
    ELSE LET start == align_up_usize(h.next, align)
             end == IF start.some THEN checked_add_usize(start.v, size) ELSE None
         IN  IF ~start.some \/ ~end.some THEN [h |-> h, ptr |-> 0]
             ELSE [h |-> [h EXCEPT !.next = end.v, !.allocations = @ + 1],
                   ptr |-> start.v]

\* The allocator afterwards and the pointer returned: 0 is the null
\* pointer, 1 is NonNull::<u8>::dangling().
allocate(h, size, align) ==
    IF ~h.initialized THEN [h |-> h, ptr |-> 0]
    ELSE IF size = 0 THEN [h |-> h, ptr |-> 1]
    ELSE LET start == align_up_usize(h.next, align)
             end == IF start.some THEN checked_add_usize(start.v, size) ELSE None
         IN  IF ~start.some \/ ~end.some THEN [h |-> h, ptr |-> 0]
             ELSE IF end.v > h.heap_end THEN [h |-> h, ptr |-> 0]
             ELSE [h |-> [h EXCEPT !.next = end.v, !.allocations = @ + 1],
                   ptr |-> start.v]

\* The mutation of deallocate that rewinds the cursor on every call.
deallocate_rewind(h, size) ==
    IF size = 0 \/ h.allocations = 0 THEN h
    ELSE [h EXCEPT !.allocations = @ - 1, !.next = h.heap_start]

deallocate(h, size) ==
    IF size = 0 \/ h.allocations = 0 THEN h
    ELSE LET h1 == [h EXCEPT !.allocations = @ - 1]
         IN  IF h1.allocations = 0 THEN [h1 EXCEPT !.next = h1.heap_start] ELSE h1

\* Layouts the kernel asks for: empty, small, large and larger than the
\* heap, at alignments that are powers of two.
LayoutSizes == {0, 20, 40, 127}
LayoutAligns == {1, 8, 16}

HeapInit ==
    /\ heap = HeapNew
    /\ heapLast = [op |-> "boot", ptr |-> 0, live |-> <<>>, failed |-> FALSE,
                   resets |-> 0]

\* init_heap_allocator: once.
InitHeapAllocator ==
    /\ ~heap.initialized
    /\ heap' = init_heap(HEAP_START, HEAP_SIZE_BYTES)
    /\ heapLast' = [heapLast EXCEPT !.op = "init"]
    /\ UNCHANGED notHeap

\* GlobalAlloc::alloc
Alloc ==
    /\ Len(heapLast.live) < MaxLive
    /\ \E size \in LayoutSizes, align \in LayoutAligns :
        LET r == allocate(heap, size, align)
        IN  /\ heap' = r.h
            /\ heapLast' = [heapLast EXCEPT
                              !.op = "alloc", !.ptr = r.ptr,
                              !.live = IF r.ptr = 0 THEN @
                                       ELSE Append(@, [ptr |-> r.ptr, size |-> size]),
                              !.failed = @ \/ (heap.initialized /\ r.ptr = 0)]
    /\ UNCHANGED notHeap

\* GlobalAlloc::dealloc of a live allocation.
Dealloc ==
    /\ \E i \in 1..Len(heapLast.live) :
        LET size == heapLast.live[i].size
            h1 == deallocate(heap, size)
        IN  /\ heap' = h1
            /\ heapLast' = [heapLast EXCEPT
                              !.op = "dealloc", !.ptr = 0,
                              !.live = SubSeq(@, 1, i - 1) \o SubSeq(@, i + 1, Len(@)),
                              !.resets = IF heap.allocations = 1 /\ size > 0
                                         THEN Min(@ + 1, 2) ELSE @]
    /\ UNCHANGED notHeap

HeapNext == InitHeapAllocator \/ Alloc \/ Dealloc

(***************************************************************************)
(* System calls.  Arguments are u64 in the kernel; here they end at        *)
(* U64_MAX, and the exit code is the argument truncated to I32_MOD values. *)
(***************************************************************************)
SYS_WRITE == 1
SYS_READ == 2
SYS_EXIT == 3
SYS_YIELD == 4
SYS_SLEEP == 5
SYS_SOCKET == 6
SYS_SENDTO == 7
SYS_RECVFROM == 8
AF_INET == 2
SOCK_DGRAM == 2
IPPROTO_UDP == 17
UDP_SOCKET_FD == 1
MAX_WRITE_BYTES == 256
UDP_REQ_SIZE == 24
ENOSYS == 38
U64_MAX == 1048575
I32_MOD == 65536
MaxCalls == 3

\* arrostd::supported_syscalls, the set the userland ABI declares.
supported_syscalls ==
    <<SYS_WRITE, SYS_READ, SYS_EXIT, SYS_YIELD, SYS_SLEEP, SYS_SOCKET, SYS_SENDTO,
      SYS_RECVFROM>>

\* arrostd::syscall::name
name(number) ==
    CASE number = SYS_WRITE -> "write"
      [] number = SYS_READ -> "read"
      [] number = SYS_EXIT -> "exit"
      [] number = SYS_YIELD -> "yield"
      [] number = SYS_SLEEP -> "sleep"
      [] number = SYS_SOCKET -> "socket"
      [] number = SYS_SENDTO -> "sendto"
      [] number = SYS_RECVFROM -> "recvfrom"
      [] OTHER -> "unknown"

as_i32(x) ==
    LET w == x % I32_MOD IN IF w >= I32_MOD \div 2 THEN w - I32_MOD ELSE w

SyscallStatsNew ==
    [write |-> 0, read |-> 0, exit |-> 0, yield_now |-> 0, sleep |-> 0, socket |-> 0,
     sendto |-> 0, recvfrom |-> 0, errors |-> 0]

Count(stats, field) == [stats EXCEPT ![field] = Min(@ + 1, U64_MAX)]

map_net_error(error) ==
    CASE error = "NotReady" -> -107
      [] error = "NotFound" -> -19
      [] error = "QueueUnavailable" -> -19
      [] error = "QueueTooLarge" -> -90
      [] error = "AddressTranslationFailed" -> -14
      [] error = "FrameTooLarge" -> -90
      [] error = "IoTimeout" -> -110
      [] error = "ArpTimeout" -> -113
      [] error = "UdpPayloadTooLarge" -> -90

\* Each syscall_* gives the statistics afterwards and the return code.
Rc(stats, rc) == [stats |-> stats, rc |-> rc]
Fault(stats, rc) == [stats |-> Count(stats, "errors"), rc |-> rc]

syscall_write(stats, ptr, len) ==
    IF ptr = 0 \/ len > MAX_WRITE_BYTES THEN Fault(stats, -22) ELSE Rc(stats, len)

\* env.byte: the input script has a byte left.
syscall_read(stats, ptr, len, env) ==
    IF ptr = 0 \/ len = 0 THEN Fault(stats, -22)
    ELSE IF ~env.byte THEN Rc(stats, 0)
    ELSE Rc(stats, 1)

syscall_socket(stats, domain, socket_type, protocol) ==
    IF domain /= AF_INET \/ socket_type /= SOCK_DGRAM THEN Fault(stats, -97)
    ELSE IF protocol /= 0 /\ protocol /= IPPROTO_UDP THEN Fault(stats, -93)
    ELSE Rc(stats, UDP_SOCKET_FD)

\* env.payload_ptr, env.payload_len: the request the task points at;
\* env.net: what net::udp_send or net::udp_recv answers.
syscall_sendto(stats, fd, req_ptr, req_len, env) ==
    IF fd /= UDP_SOCKET_FD THEN Fault(stats, -9)
    ELSE IF req_ptr = 0 \/ req_len /= UDP_REQ_SIZE THEN Fault(stats, -22)
    ELSE IF env.payload_ptr = 0 \/ env.payload_len = 0 THEN Fault(stats, -22)
    ELSE IF env.net = "Ok" THEN Rc(stats, env.payload_len)
    ELSE Fault(stats, map_net_error(env.net))

syscall_recvfrom(stats, fd, req_ptr, req_len, env) ==
    IF fd /= UDP_SOCKET_FD THEN Fault(stats, -9)
    ELSE IF req_ptr = 0 \/ req_len /= UDP_REQ_SIZE THEN Fault(stats, -22)
    ELSE IF env.payload_ptr = 0 \/ env.payload_len = 0 THEN Fault(stats, -22)
    ELSE IF env.net = "Ok" THEN Rc(stats, Min(env.payload_len, env.stored))
    ELSE IF env.net = "None" THEN Rc(stats, 0)
    ELSE Fault(stats, map_net_error(env.net))

SysResult(task, r) == [task |-> task, stats |-> r.stats, rc |-> r.rc]

\* The mutation of dispatch_syscall that ends a task on an unknown number.
dispatch_syscall_kill(stats, task, now_ticks, number, arg0, arg1, arg2, env) ==
    CASE number = SYS_WRITE ->
           SysResult(task, syscall_write(Count(stats, "write"), arg0, arg1))
      [] number = SYS_READ ->
           SysResult(task, syscall_read(Count(stats, "read"), arg0, arg1, env))
      [] number = SYS_EXIT ->
           SysResult([state |-> "Exited", until_tick |-> 0, code |-> as_i32(arg0)],
                     Rc(Count(stats, "exit"), 0))
      [] number = SYS_YIELD ->
           SysResult(task, Rc(Count(stats, "yield_now"), 0))
      [] number = SYS_SLEEP ->
           SysResult([state |-> "Sleeping",
                      until_tick |-> Min(now_ticks + Max(arg0, 1), U64_MAX),
                      code |-> 0],
                     Rc(Count(stats, "sleep"), 0))
      [] number = SYS_SOCKET ->
           SysResult(task, syscall_socket(Count(stats, "socket"), arg0, arg1, arg2))
      [] number = SYS_SENDTO ->
           SysResult(task, syscall_sendto(Count(stats, "sendto"), arg0, arg1, arg2, env))
      [] number = SYS_RECVFROM ->
           SysResult(task, syscall_recvfrom(Count(stats, "recvfrom"), arg0, arg1, arg2, env))
      [] OTHER ->
           SysResult([state |-> "Exited", until_tick |-> 0, code |-> -ENOSYS],
                     Fault(stats, -ENOSYS))

dispatch_syscall(stats, task, now_ticks, number, arg0, arg1, arg2, env) ==
    CASE number = SYS_WRITE ->
           SysResult(task, syscall_write(Count(stats, "write"), arg0, arg1))
      [] number = SYS_READ ->
           SysResult(task, syscall_read(Count(stats, "read"), arg0, arg1, env))
      [] number = SYS_EXIT ->
           SysResult([state |-> "Exited", until_tick |-> 0, code |-> as_i32(arg0)],
                     Rc(Count(stats, "exit"), 0))
      [] number = SYS_YIELD ->
           SysResult(task, Rc(Count(stats, "yield_now"), 0))
      [] number = SYS_SLEEP ->
           SysResult([state |-> "Sleeping",
                      until_tick |-> Min(now_ticks + Max(arg0, 1), U64_MAX),
                      code |-> 0],
                     Rc(Count(stats, "sleep"), 0))
      [] number = SYS_SOCKET ->
           SysResult(task, syscall_socket(Count(stats, "socket"), arg0, arg1, arg2))
      [] number = SYS_SENDTO ->
           SysResult(task, syscall_sendto(Count(stats, "sendto"), arg0, arg1, arg2, env))
      [] number = SYS_RECVFROM ->
           SysResult(task, syscall_recvfrom(Count(stats, "recvfrom"), arg0, arg1, arg2, env))
      [] OTHER ->
           SysResult(task, Fault(stats, -ENOSYS))

\* The numbers a task may pass and, for each, arguments on both sides of
\* every test the handler makes.
SyscallNumbers == 0..(SYS_RECVFROM + 2) \cup {ENOSYS, U64_MAX}
NoEnv == [byte |-> FALSE, payload_ptr |-> 0, payload_len |-> 0, stored |-> 0, net |-> "Ok"]
ReqEnvs ==
    {[NoEnv EXCEPT !.payload_ptr = 4096, !.payload_len = 8, !.stored = 4, !.net = x] :
        x \in {"Ok", "None", "NotReady", "ArpTimeout"}}
    \cup {[NoEnv EXCEPT !.payload_ptr = 0, !.payload_len = 8], [NoEnv EXCEPT !.payload_ptr = 4096]}
Call(number, arg0, arg1, arg2, env) ==
    [number |-> number, arg0 |-> arg0, arg1 |-> arg1, arg2 |-> arg2, env |-> env]
SyscallCalls ==
    {Call(SYS_WRITE, p, l, 0, NoEnv) : p \in {0, 4096}, l \in {0, MAX_WRITE_BYTES, MAX_WRITE_BYTES + 1}}
    \cup {Call(SYS_READ, a[1], a[2], 0, [NoEnv EXCEPT !.byte = b]) :
            a \in {<<0, 1>>, <<4096, 0>>, <<4096, 1>>}, b \in BOOLEAN}
    \cup {Call(SYS_EXIT, c, 0, 0, NoEnv) : c \in {0, 1, U64_MAX}}
    \cup {Call(SYS_YIELD, 0, 0, 0, NoEnv)}
    \cup {Call(SYS_SLEEP, t, 0, 0, NoEnv) : t \in {0, 17, U64_MAX}}
    \cup {Call(SYS_SOCKET, a[1], a[2], a[3], NoEnv) :
            a \in {<<AF_INET, SOCK_DGRAM, 0>>, <<AF_INET, SOCK_DGRAM, IPPROTO_UDP>>,
                   <<AF_INET, SOCK_DGRAM, 6>>, <<AF_INET, 1, 0>>, <<10, SOCK_DGRAM, 0>>}}
    \cup {Call(SYS_SENDTO, UDP_SOCKET_FD, 4096, UDP_REQ_SIZE, e) :
            e \in {x \in ReqEnvs : x.net /= "None"}}
    \cup {Call(SYS_RECVFROM, UDP_SOCKET_FD, 4096, UDP_REQ_SIZE, e) : e \in ReqEnvs}
    \cup {Call(n, a[1], a[2], a[3], NoEnv) :
            n \in {SYS_SENDTO, SYS_RECVFROM},
            a \in {<<0, 4096, UDP_REQ_SIZE>>, <<UDP_SOCKET_FD, 0, UDP_REQ_SIZE>>,
                   <<UDP_SOCKET_FD, 4096, UDP_REQ_SIZE + 1>>}}
    \cup {Call(n, a, 0, 0, NoEnv) :
            n \in SyscallNumbers \ {supported_syscalls[i] : i \in 1..Len(supported_syscalls)},
            a \in {0, 17}}

SysTaskNew == [state |-> "Ready", until_tick |-> 0, code |-> 0]

SysInit ==
    /\ sys = [task |-> SysTaskNew, stats |-> SyscallStatsNew, calls |-> 0]
    /\ sysLast = [number |-> 0, rc |-> 0, before |-> SysTaskNew, errors |-> 0,
                  called |-> FALSE]

\* A task makes one system call at the current tick.
Syscall ==
    /\ sys.calls < MaxCalls
    /\ \E c \in SyscallCalls, now_ticks \in {0, 100} :
        LET r == dispatch_syscall(sys.stats, sys.task, now_ticks, c.number,
                                  c.arg0, c.arg1, c.arg2, c.env)
        IN  /\ sys' = [task |-> r.task, stats |-> r.stats, calls |-> sys.calls + 1]
            /\ sysLast' = [number |-> c.number, rc |-> r.rc, before |-> sys.task,
                           errors |-> sys.stats.errors, called |-> TRUE]
    /\ UNCHANGED notSys

SysNext == Syscall

(***************************************************************************)
(* The boot sequence: kernel_main from its entry to run_loop.  Storage, net *)
(* and audio are the drivers above; mem::init is its result.                *)
(***************************************************************************)
MaxLoops == 3

\* The ways mem::init ends: Ok, each MemoryError, or the allocation error
\* handler during the smoke test.
MemResults ==
    {"Ok", "InvalidHeapLayout", "MissingPhysicalMemoryOffset", "HeapMap", "HeapNotMapped",
     "GuardPageMapped", "HeapAlreadyInitialized", "AllocationSmokeFailed", "alloc_error"}

\* The mutation of FsState::init that does not ask storage::is_ready.
fs_init_disk(storage_is_ready, diskfs_res) ==
    IF diskfs_res = "Ok" THEN "diskfs" ELSE "ramfs"

\* FsState::init: the backend it selects.
fs_init(storage_is_ready, diskfs_res) ==
    IF storage_is_ready
    THEN IF diskfs_res = "Ok" THEN "diskfs" ELSE "ramfs"
    ELSE "ramfs"

BootInit ==
    boot = [pc |-> "entry", log |-> <<>>, mem |-> "none",
            storage |-> DriverNew("blk"), net |-> DriverNew("net"),
            audio |-> DriverNew("snd"), fs |-> "none", loops |-> 0]

\* serial::init, gfx::init, the banner.
BootEarly ==
    /\ boot.pc = "entry"
    /\ boot' = [boot EXCEPT !.pc = "mem", !.log = @ \o <<"serial", "gfx">>]
    /\ UNCHANGED notBoot

\* mem::init and the match on its result: halt_loop on Err.
BootMem ==
    /\ boot.pc = "mem"
    /\ \E res \in MemResults :
        boot' = [boot EXCEPT !.mem = res, !.log = Append(@, "mem"),
                             !.pc = IF res = "Ok" THEN "devices" ELSE "halt"]
    /\ UNCHANGED notBoot

\* gfx::try_enable_backbuffer, keyboard::init, interrupts::init, audio::init.
BootDevices ==
    /\ boot.pc = "devices"
    /\ \E env \in Envs("snd") :
        boot' = [boot EXCEPT !.audio = init_driver(@, env),
                             !.log = @ \o <<"gfx_backbuffer", "keyboard", "interrupts", "audio">>,
                             !.pc = "storage"]
    /\ UNCHANGED notBoot

\* storage::init
BootStorage ==
    /\ boot.pc = "storage"
    /\ \E env \in Envs("blk") :
        boot' = [boot EXCEPT !.storage = init_driver(@, env), !.log = Append(@, "storage"),
                             !.pc = "net"]
    /\ UNCHANGED notBoot

\* net::init
BootNet ==
    /\ boot.pc = "net"
    /\ \E env \in Envs("net") :
        boot' = [boot EXCEPT !.net = init_driver(@, env), !.log = Append(@, "net"),
                             !.pc = "fs"]
    /\ UNCHANGED notBoot

\* fs::init
BootFs ==
    /\ boot.pc = "fs"
    /\ \E diskfs_res \in {"Ok", "Storage", "Corrupt"} :
        boot' = [boot EXCEPT !.fs = fs_init(boot.storage.ready, diskfs_res),
                             !.log = Append(@, "fs"), !.pc = "tasks"]
    /\ UNCHANGED notBoot

\* shell::init, proc::init, then run_loop.
BootTasks ==
    /\ boot.pc = "tasks"
    /\ boot' = [boot EXCEPT !.log = @ \o <<"shell", "proc">>, !.pc = "run_loop"]
    /\ UNCHANGED notBoot

\* One turn of run_loop.
RunLoop ==
    /\ boot.pc = "run_loop"
    /\ boot.loops < MaxLoops
    /\ boot' = [boot EXCEPT !.loops = @ + 1]
    /\ UNCHANGED notBoot

BootNext ==
    BootEarly \/ BootMem \/ BootDevices \/ BootStorage \/ BootNet \/ BootFs \/ BootTasks
        \/ RunLoop

(***************************************************************************)
(* The submit paths, write by write: storage submit_io, net transmit_frame *)
(* and snd enqueue_tx_packet, each as the sequence of its stores to the    *)
(* descriptor table, the avail ring and the notify register, with a device *)
(* that reads the ring between any two of them.                            *)
(***************************************************************************)
TX_SLOT_COUNT == 10
TX_DESC_PER_SLOT == 3
MaxSubmits == 3

Desc(i) == [op |-> "desc", i |-> i]
RingEntry == [op |-> "ring", i |-> 0]
Fence == [op |-> "fence", i |-> 0]
AvailIdx == [op |-> "idx", i |-> 0]
Notify == [op |-> "notify", i |-> 0]

\* storage: descriptors 0, 1 and 2 (header, data, status), the ring entry, a
\* fence, avail.idx, a fence, the notify register.
submit_io_steps(head) ==
    <<Desc(0), Desc(1), Desc(2), RingEntry, Fence, AvailIdx, Fence, Notify>>

\* net: descriptors 0 and 1 (virtio-net header, frame).
transmit_frame_steps(head) ==
    <<Desc(0), Desc(1), RingEntry, Fence, AvailIdx, Fence, Notify>>

\* The mutation of enqueue_tx_packet that publishes avail.idx before the
\* ring entry.
enqueue_tx_packet_early(head) ==
    <<Desc(head), Desc(head + 1), Desc(head + 2), Fence, AvailIdx, RingEntry, Notify>>

\* snd: the three descriptors of the slot, the ring entry, a release fence,
\* avail.idx, notify_queue.
enqueue_tx_packet_steps(head) ==
    <<Desc(head), Desc(head + 1), Desc(head + 2), RingEntry, Fence, AvailIdx, Notify>>

SubmitSteps(kind, head) ==
    CASE kind = "blk" -> submit_io_steps(head)
      [] kind = "net" -> transmit_frame_steps(head)
      [] OTHER -> enqueue_tx_packet_steps(head)

\* The descriptors of one chain.
Chain(kind, head) ==
    CASE kind = "blk" -> {0, 1, 2}
      [] kind = "net" -> {0, 1}
      [] OTHER -> {head, head + 1, head + 2}

\* The slots enqueue_tx_packet may be given by next_free_slot; the legacy
\* drivers always use descriptor 0 as the head.
Heads(kind) ==
    IF kind = "snd" THEN {slot * TX_DESC_PER_SLOT : slot \in {0, 1, TX_SLOT_COUNT - 1}}
    ELSE {0}

TxqInit(kind, size, idx) ==
    txq = [kind |-> kind, size |-> size, avail_idx |-> idx,
           entries |-> [i \in 0..(size - 1) |-> 0],
           pc |-> 0, head |-> 0, written |-> {}, ring_slot |-> -1,
           fenced |-> FALSE, fenced_at_idx |-> FALSE, idx_done |-> FALSE,
           notified |-> FALSE, submits |-> 0, dev_idx |-> idx, dev_ok |-> TRUE,
           rejected |-> 0]

\* The call begins.  It returns before any write when its checks fail (no
\* data buffer or no translation, not ready or frame too large, no free
\* slot or bad arguments).
SubmitBegin ==
    /\ txq.pc = 0
    /\ txq.dev_idx = txq.avail_idx
    /\ txq.submits < MaxSubmits
    /\ \/ txq' = [txq EXCEPT !.rejected = Min(@ + 1, 1)]
       \/ \E head \in Heads(txq.kind) :
              txq' = [txq EXCEPT !.pc = 1, !.head = head, !.written = {},
                                 !.ring_slot = -1, !.fenced = FALSE,
                                 !.fenced_at_idx = FALSE, !.idx_done = FALSE,
                                 !.notified = FALSE, !.submits = @ + 1]
    /\ UNCHANGED notTxq

\* The next store or fence of the call.
SubmitStep ==
    /\ txq.pc > 0
    /\ LET steps == SubmitSteps(txq.kind, txq.head)
           step == steps[txq.pc]
           next == IF txq.pc = Len(steps) THEN 0 ELSE txq.pc + 1
           slot == txq.avail_idx % txq.size
       IN  txq' =
             CASE step.op = "desc" ->
                    [txq EXCEPT !.pc = next, !.written = @ \cup {step.i}, !.fenced = FALSE]
               [] step.op = "ring" ->
                    [txq EXCEPT !.pc = next, !.entries[slot] = txq.head,
                                !.ring_slot = slot, !.fenced = FALSE]
               [] step.op = "fence" ->
                    [txq EXCEPT !.pc = next, !.fenced = TRUE]
               [] step.op = "idx" ->
                    [txq EXCEPT !.pc = next, !.avail_idx = Inc16(@), !.idx_done = TRUE,
                                !.fenced_at_idx = txq.fenced]
               [] OTHER ->
                    [txq EXCEPT !.pc = next, !.notified = TRUE]
    /\ UNCHANGED notTxq

\* The device sees a new avail.idx, notified or not, and fetches the chain
\* the ring entry names.
DeviceRead ==
    /\ txq.dev_idx /= txq.avail_idx
    /\ LET slot == txq.dev_idx % txq.size
           head == txq.entries[slot]
       IN  txq' = [txq EXCEPT
                     !.dev_idx = Inc16(@),
                     !.dev_ok = @ /\ txq.ring_slot = slot /\ head = txq.head
                                  /\ Chain(txq.kind, head) \subseteq txq.written]
    /\ UNCHANGED notTxq

TxqNext == SubmitBegin \/ SubmitStep \/ DeviceRead

(***************************************************************************)
(* The used rings.  The device writes an element (id, len) at               *)
(* used.idx % size and increments used.idx; every value of id and len is    *)
(* possible.  net poll_rx_once consumes one element of the RX queue,        *)
(* snd poll_tx_used consumes every element of the TX queue.                 *)
(***************************************************************************)
NET_HDR_SIZE == 10
U32_MAX == 2097151
U16_MAX == 65535
TX_PACKET_FRAMES == 1024
MaxUsed == 3
MaxEnqueues == 2

UsedLens == {0, NET_HDR_SIZE + 1, NET_HDR_SIZE + MAX_RX_FRAME,
             NET_HDR_SIZE + MAX_RX_FRAME + 1, U32_MAX}
UsedIds == {0, TX_DESC_PER_SLOT + 1, TX_DESC_PER_SLOT * TX_SLOT_COUNT, U32_MAX}
UsedElems(kind) ==
    IF kind = "net" THEN [id : {0}, len : UsedLens] ELSE [id : UsedIds, len : {0}]

saturating_sub(a, b) == IF a < b THEN 0 ELSE a - b
saturating_add_to(a, b, max) == Min(a + b, max)

TxSlots == 0..(TX_SLOT_COUNT - 1)

UqNoPoll ==
    [op |-> "none", used_slots |-> {}, avail_slots |-> {}, payload_len |-> 0,
     elems |-> <<>>, busy |-> {}, pending_packets |-> 0, completed_packets |-> 0,
     pending_hw_frames |-> 0, completed_frames |-> 0]

UqInit(kind, size, idx, count) ==
    uq = [kind |-> kind, size |-> size, used_idx |-> idx, last_used |-> idx,
          ring |-> [i \in 0..(size - 1) |-> [id |-> 0, len |-> 0]],
          published |-> 0, enqueued |-> 0,
          rx_avail |-> idx, rx_frames |-> count,
          tx_slot_busy |-> [i \in TxSlots |-> FALSE],
          tx_slot_frames |-> [i \in TxSlots |-> 0],
          pending_packets |-> 0, completed_packets |-> count,
          pending_hw_frames |-> 0, completed_frames |-> count,
          dropped_packets |-> count,
          last |-> UqNoPoll]

\* The mutation of poll_rx_once that takes the length from the element
\* without the upper limit.
poll_rx_once_unclamped(u) ==
    LET slot == u.last_used % u.size
        elem == u.ring[slot]
        payload_len == saturating_sub(elem.len, NET_HDR_SIZE)
    IN  [u EXCEPT !.last_used = Inc16(@),
                  !.rx_avail = Inc16(@),
                  !.rx_frames = saturating_add_to(@, 1, U64_MAX),
                  !.last = [UqNoPoll EXCEPT !.op = "poll_rx_once",
                                            !.used_slots = {slot},
                                            !.avail_slots = {u.rx_avail % u.size},
                                            !.payload_len = payload_len,
                                            !.elems = <<elem>>]]

\* net: poll_rx_once when used.idx differs from rx_last_used.  The frame is
\* frame[..payload_len] copied from RX_BUFFER.frame[..payload_len]; after
\* it post_rx_buffer puts the buffer back at rx_avail % rx_queue_size.
poll_rx_once(u) ==
    LET slot == u.last_used % u.size
        elem == u.ring[slot]
        payload_len == Min(saturating_sub(elem.len, NET_HDR_SIZE), MAX_RX_FRAME)
    IN  [u EXCEPT !.last_used = Inc16(@),
                  !.rx_avail = Inc16(@),
                  !.rx_frames = saturating_add_to(@, 1, U64_MAX),
                  !.last = [UqNoPoll EXCEPT !.op = "poll_rx_once",
                                            !.used_slots = {slot},
                                            !.avail_slots = {u.rx_avail % u.size},
                                            !.payload_len = payload_len,
                                            !.elems = <<elem>>]]

\* snd: the body of the loop of poll_tx_used for one element; status is
\* the status word the device left in the packet of the slot.
poll_tx_elem(u, status) ==
    LET used_slot == u.last_used % u.size
        head == u.ring[used_slot].id
        slot == head \div TX_DESC_PER_SLOT
        frame_count == u.tx_slot_frames[slot]
        bad == status /= VIRTIO_SND_S_OK /\ status /= 0
        u1 == IF slot < TX_SLOT_COUNT /\ u.tx_slot_busy[slot]
              THEN [u EXCEPT !.tx_slot_busy[slot] = FALSE,
                             !.pending_packets = saturating_sub(@, 1),
                             !.completed_packets = saturating_add_to(@, 1, U64_MAX),
                             !.pending_hw_frames = saturating_sub(@, frame_count),
                             !.completed_frames = saturating_add_to(@, frame_count, U64_MAX),
                             !.tx_slot_frames[slot] = 0,
                             !.dropped_packets =
                                 IF bad THEN saturating_add_to(@, 1, U64_MAX) ELSE @]
              ELSE u
    IN  [u1 EXCEPT !.last_used = Inc16(@),
                   !.last.used_slots = @ \cup {used_slot},
                   !.last.elems = Append(@, u.ring[used_slot])]

RECURSIVE poll_tx_loop(_, _)
poll_tx_loop(u, status) ==
    IF u.last_used = u.used_idx THEN u
    ELSE poll_tx_loop(poll_tx_elem(u, status), status)

BusySlots(u) == {i \in TxSlots : u.tx_slot_busy[i]}

poll_tx_used(u, status) ==
    poll_tx_loop([u EXCEPT !.last = [UqNoPoll EXCEPT
                                         !.op = "poll_tx_used",
                                         !.busy = BusySlots(u),
                                         !.pending_packets = u.pending_packets,
                                         !.completed_packets = u.completed_packets,
                                         !.pending_hw_frames = u.pending_hw_frames,
                                         !.completed_frames = u.completed_frames]],
                 status)

\* snd: what enqueue_tx_packet does to the slot table when it queues a
\* packet of frame_count frames in the first free slot.
enqueue_tx_slot(u, frame_count) ==
    LET slot == CHOOSE i \in TxSlots :
                    ~u.tx_slot_busy[i] /\ \A j \in TxSlots : j < i => u.tx_slot_busy[j]
    IN  [u EXCEPT !.tx_slot_busy[slot] = TRUE,
                  !.tx_slot_frames[slot] = frame_count,
                  !.pending_packets = saturating_add_to(@, 1, U16_MAX),
                  !.pending_hw_frames = saturating_add_to(@, frame_count, U32_MAX),
                  !.enqueued = @ + 1,
                  !.last = UqNoPoll]

\* The device completes something: it writes one element and moves used.idx.
DevicePublish ==
    /\ uq.published < MaxUsed
    /\ (uq.used_idx - uq.last_used + IDX_MOD) % IDX_MOD < uq.size
    /\ \E elem \in UsedElems(uq.kind) :
           uq' = [uq EXCEPT !.ring[uq.used_idx % uq.size] = elem,
                            !.used_idx = Inc16(@),
                            !.published = @ + 1]
    /\ UNCHANGED notUq

NetPollRx ==
    /\ uq.kind = "net"
    /\ uq.used_idx /= uq.last_used
    /\ uq' = poll_rx_once(uq)
    /\ UNCHANGED notUq

SndEnqueue ==
    /\ uq.kind = "snd"
    /\ uq.enqueued < MaxEnqueues
    /\ BusySlots(uq) /= TxSlots
    /\ \E frame_count \in {1, TX_PACKET_FRAMES} : uq' = enqueue_tx_slot(uq, frame_count)
    /\ UNCHANGED notUq

SndPollTxUsed ==
    /\ uq.kind = "snd"
    /\ \E status \in {VIRTIO_SND_S_OK, 1} : uq' = poll_tx_used(uq, status)
    /\ UNCHANGED notUq

UqNext == DevicePublish \/ NetPollRx \/ SndEnqueue \/ SndPollTxUsed

(***************************************************************************)
(* The ARP cache of NetState.  Every received frame passes process_frame,  *)
(* which hands it to handle_arp or handle_ipv4; learn_arp is the only      *)
(* writer of the cache.                                                    *)
(***************************************************************************)
ARP_ENTRIES == 8
MaxFrames == 2
MAC_ZERO == 0

HostIp(k) == <<10, 0, 2, k>>
ArpEntryEmpty == [valid |-> FALSE, ip |-> IP_ZERO, mac |-> MAC_ZERO]
ArpSlots == 1..ARP_ENTRIES

\* The lowest index of a non-empty set of slots: the entry a `for` loop over
\* the table meets first.
FirstSlot(S) == CHOOSE i \in S : \A j \in S : i <= j

\* learn_arp without its first loop: a known address takes a new slot.
learn_arp_no_update(cache, ip, mac) ==
    IF ip = IP_ZERO \/ mac = MAC_ZERO THEN cache
    ELSE LET free == {i \in ArpSlots : ~cache[i].valid}
             entry == [valid |-> TRUE, ip |-> ip, mac |-> mac]
         IN  IF free /= {} THEN [cache EXCEPT ![FirstSlot(free)] = entry]
             ELSE [cache EXCEPT ![1] = entry]

learn_arp(cache, ip, mac) ==
    IF ip = IP_ZERO \/ mac = MAC_ZERO THEN cache
    ELSE LET known == {i \in ArpSlots : cache[i].valid /\ cache[i].ip = ip}
             free == {i \in ArpSlots : ~cache[i].valid}
             entry == [valid |-> TRUE, ip |-> ip, mac |-> mac]
         IN  IF known /= {} THEN [cache EXCEPT ![FirstSlot(known)].mac = mac]
             ELSE IF free /= {} THEN [cache EXCEPT ![FirstSlot(free)] = entry]
             ELSE [cache EXCEPT ![1] = entry]

\* A received frame, as far as the cache depends on it: the Ethernet
\* destination, the ethertype, whether the payload passes the length and
\* header checks, and the addresses.  For ARP `ip` and `mac` are the sender
\* fields of the payload and `to_ip` the target address; for IPv4 `ip` is the
\* source address, `mac` the Ethernet source and `to_ip` the destination
\* address.  `oper` is 1 for an ARP request, 2 for a reply, 0 for IPv4.
ArpFrameIps == {IP_ZERO, HostIp(1), HostIp(9)}
ArpFrameMacs == {MAC_ZERO, 2}
ArpFrameTargets == {LOCAL_IP, HostIp(3)}
ArpFrames ==
    [eth_dst : {"self", "broadcast", "other"}, ethertype : {"arp"}, ok : BOOLEAN,
     oper : {1, 2}, ip : ArpFrameIps, mac : ArpFrameMacs, to_ip : ArpFrameTargets]
        \cup
    [eth_dst : {"self", "broadcast", "other"}, ethertype : {"ipv4"}, ok : BOOLEAN,
     oper : {0}, ip : ArpFrameIps, mac : ArpFrameMacs, to_ip : ArpFrameTargets]
        \cup
    [eth_dst : {"self"}, ethertype : {"other"}, ok : {TRUE},
     oper : {0}, ip : {HostIp(9)}, mac : {2}, to_ip : {LOCAL_IP}]

\* handle_arp learns the sender of every well-formed packet before it looks
\* at the operation and the target address.
arp_handle_arp(cache, f) ==
    IF ~f.ok THEN cache ELSE learn_arp(cache, f.ip, f.mac)

\* handle_ipv4 learns the source of every well-formed packet before it
\* compares the destination address with ours.
arp_handle_ipv4(cache, f) ==
    IF ~f.ok THEN cache ELSE learn_arp(cache, f.ip, f.mac)

arp_process_frame(cache, f) ==
    IF f.eth_dst = "other" THEN cache
    ELSE IF f.ethertype = "arp" THEN arp_handle_arp(cache, f)
    ELSE IF f.ethertype = "ipv4" THEN arp_handle_ipv4(cache, f)
    ELSE cache

\* A cache whose first `k` slots hold the hosts 1..k.
ArpCacheOf(k) ==
    [i \in ArpSlots |-> IF i <= k THEN [valid |-> TRUE, ip |-> HostIp(i), mac |-> 1]
                        ELSE ArpEntryEmpty]

ArpNoFrame ==
    [eth_dst |-> "other", ethertype |-> "other", ok |-> FALSE, oper |-> 0,
     ip |-> IP_ZERO, mac |-> MAC_ZERO, to_ip |-> IP_ZERO]

ArpInit(fills) ==
    \E k \in fills :
        arpc = [cache |-> ArpCacheOf(k), frames |-> 0,
                last |-> [frame |-> ArpNoFrame, before |-> ArpCacheOf(k)]]

ArpReceive ==
    /\ arpc.frames < MaxFrames
    /\ \E f \in ArpFrames :
          arpc' = [cache |-> arp_process_frame(arpc.cache, f),
                   frames |-> arpc.frames + 1,
                   last |-> [frame |-> f, before |-> arpc.cache]]
    /\ UNCHANGED notArp

ArpNext == ArpReceive

(***************************************************************************)
(* The playback path of the sound driver after a successful init: the FIFO *)
(* of resampled frames, the TX slot table and the counters.  The samples   *)
(* themselves are left out; the FIFO is its fill level in samples.  The    *)
(* record carries the fields of the used-ring model, so poll_tx_used and   *)
(* enqueue_tx_slot are the definitions above.                              *)
(***************************************************************************)
MAX_RESAMPLE_FRAMES == 2048
PCM_FIFO_FRAMES == TX_PACKET_FRAMES * 24
PCM_FIFO_TARGET_FRAMES == TX_PACKET_FRAMES * 6
PCM_FIFO_HIGH_WATER_FRAMES == TX_PACKET_FRAMES * 10
PcmRingSize == 4
MaxPcmSteps == 3

clamp_channels(channels) == Max(1, Min(channels, 2))

NoTrim ==
    [called |-> FALSE, total_before |-> 0, fifo_before |-> 0, dropped_before |-> 0,
     total_after |-> 0, fifo_after |-> 0, dropped_after |-> 0]

\* A driver with `busy` slots in use from slot 0 on, each holding a packet
\* of `each` frames, and `fifo` frames waiting in the FIFO.
PcmInit(fills, chans) ==
    \E fill \in fills, channels \in chans :
        LET busy == fill[1]
            each == fill[2]
            fifo == fill[3]
        IN  pcm = [size |-> PcmRingSize, used_idx |-> 0, last_used |-> 0,
                   ring |-> [i \in 0..(PcmRingSize - 1) |-> [id |-> 0, len |-> 0]],
                   enqueued |-> 0,
                   tx_slot_busy |-> [i \in TxSlots |-> i < busy],
                   tx_slot_frames |-> [i \in TxSlots |-> IF i < busy THEN each ELSE 0],
                   pending_packets |-> busy, completed_packets |-> 0,
                   pending_hw_frames |-> busy * each, completed_frames |-> 0,
                   dropped_packets |-> 0, last |-> UqNoPoll,
                   started |-> TRUE, channels |-> channels,
                   pcm_fifo_samples |-> fifo * channels, dropped_frames |-> 0,
                   steps |-> 0, op |-> "none", trim |-> NoTrim, reset_busy |-> FALSE]

total_buffered_frames(p) ==
    LET channels == clamp_channels(p.channels)
        fifo_frames == Min(p.pcm_fifo_samples \div channels, U32_MAX)
    IN  saturating_add_to(p.pending_hw_frames, fifo_frames, U32_MAX)

fifo_capacity_samples(channels) == PCM_FIFO_FRAMES * clamp_channels(channels)

fifo_drop_oldest_samples(p, drop_samples, chans) ==
    LET channels == clamp_channels(chans)
        aligned_drop == drop_samples - (drop_samples % channels)
        dropped == Min(aligned_drop, p.pcm_fifo_samples)
    IN  IF drop_samples = 0 \/ p.pcm_fifo_samples = 0 \/ aligned_drop = 0 THEN p
        ELSE [p EXCEPT !.pcm_fifo_samples = saturating_sub(@, dropped),
                       !.dropped_frames =
                           saturating_add_to(@, dropped \div channels, U64_MAX)]

\* push_fifo_samples for `len` samples: what does not fit the capacity is
\* dropped from the input, what does not fit the free space pushes out the
\* oldest samples.
push_fifo_samples(p, len, chans) ==
    LET channels == clamp_channels(chans)
        capacity == fifo_capacity_samples(channels)
        aligned == len - (len % channels)
        overflow == saturating_sub(aligned, capacity)
        sample_count == Min(aligned, capacity)
        p1 == IF overflow > 0
              THEN [p EXCEPT !.dropped_frames =
                                 saturating_add_to(@, overflow \div channels, U64_MAX)]
              ELSE p
        free == saturating_sub(capacity, p1.pcm_fifo_samples)
        p2 == IF sample_count > free
              THEN fifo_drop_oldest_samples(p1, sample_count - free, channels)
              ELSE p1
    IN  IF len = 0 \/ aligned = 0 THEN p
        ELSE [p2 EXCEPT !.pcm_fifo_samples = @ + sample_count]

consume_fifo_samples(p, sample_count, chans) ==
    LET channels == clamp_channels(chans)
        aligned == sample_count - (sample_count % channels)
        consumed == Min(aligned, p.pcm_fifo_samples)
    IN  IF sample_count = 0 THEN p
        ELSE [p EXCEPT !.pcm_fifo_samples = saturating_sub(@, consumed)]

\* trim_fifo_if_needed; the record `trim` keeps what the call saw and left.
trim_fifo_if_needed(p, chans) ==
    LET channels == clamp_channels(chans)
        total == total_buffered_frames(p)
        fifo_frames == Min(p.pcm_fifo_samples \div channels, U32_MAX)
        drop_frames == Min(saturating_sub(total, PCM_FIFO_TARGET_FRAMES), fifo_frames)
        p1 == IF total <= PCM_FIFO_HIGH_WATER_FRAMES \/ fifo_frames = 0 THEN p
              ELSE fifo_drop_oldest_samples(p, drop_frames * channels, channels)
    IN  [p1 EXCEPT !.trim = [called |-> TRUE,
                             total_before |-> total,
                             fifo_before |-> fifo_frames,
                             dropped_before |-> p.dropped_frames,
                             total_after |-> total_buffered_frames(p1),
                             fifo_after |-> p1.pcm_fifo_samples \div channels,
                             dropped_after |-> p1.dropped_frames]]

\* The loop of pump_fifo_to_tx: one packet of up to TX_PACKET_FRAMES frames
\* per free slot while the FIFO holds a frame.
RECURSIVE pump_loop(_)
pump_loop(p) ==
    LET channels == clamp_channels(p.channels)
        available_frames == p.pcm_fifo_samples \div channels
        frame_count == Min(available_frames, TX_PACKET_FRAMES)
        sample_count == frame_count * channels
    IN  IF BusySlots(p) = TxSlots \/ available_frames = 0 THEN p
        ELSE pump_loop(consume_fifo_samples(enqueue_tx_slot(p, frame_count),
                                            sample_count, channels))

pump_fifo_to_tx(p) ==
    IF ~p.started THEN p ELSE pump_loop(poll_tx_used(p, VIRTIO_SND_S_OK))

\* The chunk loop of submit_pcm_i16; chunks[i] is the number of frames the
\* resampler produced from the i-th chunk of the input.
RECURSIVE submit_chunks(_, _)
submit_chunks(p, chunks) ==
    IF chunks = <<>> THEN p
    ELSE LET channels == clamp_channels(p.channels)
             produced_samples == Head(chunks) * channels
             p1 == IF produced_samples > 0
                   THEN pump_fifo_to_tx(
                            trim_fifo_if_needed(
                                push_fifo_samples(p, produced_samples, channels),
                                channels))
                   ELSE p
         IN  submit_chunks(p1, Tail(chunks))

submit_pcm_i16(p, chunks) ==
    IF ~p.started \/ chunks = <<>> THEN p
    ELSE submit_chunks(pump_fifo_to_tx(p), chunks)

\* set_started; cmd_ok is the result of send_pcm_cmd.
set_started(p, enabled, cmd_ok) ==
    IF enabled = p.started \/ ~cmd_ok THEN p
    ELSE IF ~enabled THEN [p EXCEPT !.started = FALSE, !.pcm_fifo_samples = 0]
    ELSE pump_fifo_to_tx([p EXCEPT !.started = TRUE])

reset_runtime_metrics(p) ==
    [p EXCEPT !.pending_packets = 0, !.completed_packets = 0, !.dropped_packets = 0,
              !.completed_frames = 0, !.dropped_frames = 0, !.pending_hw_frames = 0,
              !.pcm_fifo_samples = 0,
              !.reset_busy = @ \/ BusySlots(p) /= {}]

PcmStep(p, op) == [p EXCEPT !.steps = @ + 1, !.op = op]
PcmEnter == [pcm EXCEPT !.trim = NoTrim]

PcmChunks == {<<1>>, <<MAX_RESAMPLE_FRAMES>>, <<TX_PACKET_FRAMES, MAX_RESAMPLE_FRAMES>>}
PcmUsedIds ==
    {0, (TX_SLOT_COUNT - 1) * TX_DESC_PER_SLOT, TX_SLOT_COUNT * TX_DESC_PER_SLOT}

\* The device returns a chain: the head of slot 0, of the last slot, or an
\* id outside the slot table.
PcmDevice ==
    /\ pcm.steps < MaxPcmSteps
    /\ (pcm.used_idx - pcm.last_used + IDX_MOD) % IDX_MOD < pcm.size
    /\ \E id \in PcmUsedIds :
           pcm' = PcmStep([PcmEnter EXCEPT !.ring[pcm.used_idx % pcm.size] =
                                               [id |-> id, len |-> 0],
                                           !.used_idx = Inc16(@)], "device")
    /\ UNCHANGED notPcm

PcmSubmit ==
    /\ pcm.steps < MaxPcmSteps
    /\ \E chunks \in PcmChunks : pcm' = PcmStep(submit_pcm_i16(PcmEnter, chunks), "submit")
    /\ UNCHANGED notPcm

PcmPoll ==
    /\ pcm.steps < MaxPcmSteps
    /\ pcm' = PcmStep(pump_fifo_to_tx(PcmEnter), "poll")
    /\ UNCHANGED notPcm

PcmSetEnabled ==
    /\ pcm.steps < MaxPcmSteps
    /\ \E enabled \in BOOLEAN, cmd_ok \in BOOLEAN :
           pcm' = PcmStep(set_started(PcmEnter, enabled, cmd_ok), "set_enabled")
    /\ UNCHANGED notPcm

PcmReset ==
    /\ pcm.steps < MaxPcmSteps
    /\ pcm' = PcmStep(reset_runtime_metrics(PcmEnter), "reset")
    /\ UNCHANGED notPcm

PcmNext == PcmDevice \/ PcmSubmit \/ PcmPoll \/ PcmSetEnabled \/ PcmReset

(***************************************************************************)
(* The packet assembler of the PS/2 mouse (kernel/src/mouse.rs): the       *)
(* position in the three-byte packet, the four counters and the indices of *)
(* the event queue.  The events themselves are left out; `enqueued` counts *)
(* the events push_event has stored since init.                            *)
(***************************************************************************)
MouseQueueCap == 2
MaxMouseBytes == 8
MouseBytes == {0, 8, 247, 255}

\* byte & 0x08
SyncBit(byte) == ((byte \div 8) % 2) * 8

MouseNew ==
    [packet_index |-> 0, bytes_rx |-> 0, packets_rx |-> 0, events_dropped |-> 0,
     bad_sync |-> 0, head |-> 0, tail |-> 0, enqueued |-> 0]

MouseNoCall == [op |-> "none", byte |-> 0, before |-> MouseNew]

MouseInit == mouse = [m |-> MouseNew, calls |-> 0, last |-> MouseNoCall]

mouse_push_event(m) ==
    LET next_head == (m.head + 1) % MouseQueueCap
    IN  IF next_head = m.tail THEN [m EXCEPT !.events_dropped = @ + 1]
        ELSE [m EXCEPT !.head = next_head, !.enqueued = @ + 1]

\* The mutation of handle_data_byte that takes any byte as the first byte
\* of a packet.
mouse_handle_data_byte_unsynced(m, byte) ==
    LET m1 == [m EXCEPT !.bytes_rx = @ + 1]
        index == m.packet_index
    IN  IF index < 2 THEN [m1 EXCEPT !.packet_index = index + 1]
        ELSE mouse_push_event([m1 EXCEPT !.packet_index = 0, !.packets_rx = @ + 1])

mouse_handle_data_byte(m, byte) ==
    LET m1 == [m EXCEPT !.bytes_rx = @ + 1]
        index == m.packet_index
    IN  IF index = 0 /\ SyncBit(byte) = 0 THEN [m1 EXCEPT !.bad_sync = @ + 1]
        ELSE IF index < 2 THEN [m1 EXCEPT !.packet_index = index + 1]
        ELSE mouse_push_event([m1 EXCEPT !.packet_index = 0, !.packets_rx = @ + 1])

mouse_pop_event(m) ==
    IF m.tail = m.head THEN m ELSE [m EXCEPT !.tail = (m.tail + 1) % MouseQueueCap]

\* IRQ12 delivers a byte.
MouseByte ==
    /\ mouse.calls < MaxMouseBytes
    /\ \E byte \in MouseBytes :
           mouse' = [m |-> mouse_handle_data_byte(mouse.m, byte),
                     calls |-> mouse.calls + 1,
                     last |-> [op |-> "byte", byte |-> byte, before |-> mouse.m]]
    /\ UNCHANGED notMouse

\* The main loop takes an event.
MousePop ==
    /\ mouse.m.tail /= mouse.m.head
    /\ mouse' = [mouse EXCEPT !.m = mouse_pop_event(mouse.m),
                              !.last = [op |-> "pop", byte |-> 0, before |-> mouse.m]]
    /\ UNCHANGED notMouse

MouseNext == MouseByte \/ MousePop

vars == <<fsVars, vqVars, qVars, memVars, drvVars, restVars>>

\* The groups a specification does not exercise stay as they start.
IdleQueue == QInit("kbd_byte")
IdleMem == MemInit({<<>>})
IdleDrv == DrvInit("blk")
IdleProc == ProcInit
IdleNet == NetInit({<<LOCAL_IP, LOCAL_NETMASK, LOCAL_GATEWAY>>})
IdleIrq == IrqInit
IdleHeap == HeapInit
IdleSys == SysInit
IdleBoot == BootInit
IdleTxq == TxqInit("blk", 2, 0)
IdleUq == UqInit("net", 2, 0, 0)
IdleArp == ArpInit({0})
IdlePcm == PcmInit({<<0, 0, 0>>}, {2})
IdleMouse == MouseInit
IdleExt == IdleSys /\ IdleBoot /\ IdleTxq /\ IdleUq /\ IdleArp /\ IdlePcm /\ IdleMouse
IdleRest == IdleProc /\ IdleNet /\ IdleIrq /\ IdleHeap /\ IdleExt

\* The filesystem over a device that answers every request.
InitFs == FsInit(0) /\ VqInit("blk") /\ IdleQueue /\ IdleMem /\ IdleDrv /\ IdleRest
SpecFs == InitFs /\ [][FsNext]_vars

\* The filesystem over a device that may fail sector requests.
InitFsFault == FsInit(MaxFaults) /\ VqInit("blk") /\ IdleQueue /\ IdleMem /\ IdleDrv /\ IdleRest
SpecFsFault == InitFsFault /\ [][FsNext]_vars

\* mount and read over volume images with arbitrary directory entries.
InitImg == ImgInit /\ VqInit("blk") /\ IdleQueue /\ IdleMem /\ IdleDrv /\ IdleRest
SpecImg == InitImg /\ [][ImgNext]_vars

\* One virtqueue, its driver and its device.
InitVq ==
    (\E kind \in Kinds : VqInit(kind)) /\ FsInit(0) /\ IdleQueue /\ IdleMem /\ IdleDrv
        /\ IdleRest
SpecVq == InitVq /\ [][VqNext]_vars

\* One SPSC ring with its interrupt-side producer and main-loop consumer.
InitQueue ==
    (\E kind \in QueueKinds : QInit(kind)) /\ FsInit(0) /\ VqInit("blk")
        /\ IdleMem /\ IdleDrv /\ IdleRest
SpecQueue == InitQueue /\ [][QNext]_vars

\* The frame allocator over every memory map of up to MaxRegions regions.
InitMem ==
    MemInit(MemoryMaps(MaxRegions)) /\ FsInit(0) /\ VqInit("blk") /\ IdleQueue /\ IdleDrv
        /\ IdleRest
SpecMem == InitMem /\ [][MemNext]_vars

\* The initialization of one driver against every device behaviour.
InitDrv ==
    (\E kind \in Kinds : DrvInit(kind)) /\ FsInit(0) /\ VqInit("blk")
        /\ IdleQueue /\ IdleMem /\ IdleRest
SpecDrv == InitDrv /\ [][DrvNext]_vars

IdleCore == FsInit(0) /\ VqInit("blk") /\ IdleQueue /\ IdleMem /\ IdleDrv

\* The scheduler driven by the main loop at non-decreasing ticks.
InitProc == ProcInit /\ IdleCore /\ IdleNet /\ IdleIrq /\ IdleHeap /\ IdleExt
SpecProc == InitProc /\ [][ProcNext]_vars

\* The same under the main loop of run_loop, which never ends and calls
\* run_once(time::ticks()) in every pass, with a timer that keeps counting:
\* passes that see an advanced tick counter keep happening.
SpecProcLive == InitProc /\ [][ProcNext]_vars /\ WF_vars(RunOnceLater)

\* Route selection under every lease.
InitRoute == NetInit(RouteLeases) /\ IdleCore /\ IdleProc /\ IdleIrq /\ IdleHeap /\ IdleExt
SpecRoute == InitRoute /\ [][RouteNext]_vars

\* UDP reception, the echo service and the mailbox under the static lease.
InitUdp == IdleNet /\ IdleCore /\ IdleProc /\ IdleIrq /\ IdleHeap /\ IdleExt
SpecUdp == InitUdp /\ [][UdpNext]_vars

\* try_init from the call of try_dhcp on.
InitDhcp ==
    /\ net = [NetNew(LOCAL_IP, LOCAL_NETMASK, LOCAL_GATEWAY) EXCEPT !.pc = "try_dhcp"]
    /\ netLast = NetLastNone
    /\ netHist = NetHistNone
    /\ IdleCore /\ IdleProc /\ IdleIrq /\ IdleHeap /\ IdleExt
SpecDhcp == InitDhcp /\ [][DhcpNext]_vars

\* curl_http_roundtrip once the SYN is out (net/mod.rs 1272-1283), for an
\* initial sequence number well inside the sequence space and for one at
\* its end.
InitTcp ==
    /\ \E iss \in {1000, SEQ_MOD - 1} :
        net = [NetNew(LOCAL_IP, LOCAL_NETMASK, LOCAL_GATEWAY) EXCEPT
                 !.pc = "curl",
                 !.pending_http = [PendingHttpEmpty EXCEPT
                     !.active = TRUE, !.remote_ip = LOCAL_GATEWAY, !.remote_port = 80,
                     !.local_port = 49152, !.seq_next = wrapping_add(iss, 1)]]
    /\ netLast = NetLastNone
    /\ netHist = NetHistNone
    /\ IdleCore /\ IdleProc /\ IdleIrq /\ IdleHeap /\ IdleExt
SpecTcp == InitTcp /\ [][TcpNext]_vars

\* Pings from the shell under the static lease.
InitPing == IdleNet /\ IdleCore /\ IdleProc /\ IdleIrq /\ IdleHeap /\ IdleExt
SpecPing == InitPing /\ [][PingNext]_vars

\* Interrupts against a main loop that holds any set of locks.
InitIrq == IrqInit /\ IdleCore /\ IdleProc /\ IdleNet /\ IdleHeap /\ IdleExt
SpecIrq == InitIrq /\ [][IrqNext]_vars

\* The global allocator from boot on.
InitHeap == HeapInit /\ IdleCore /\ IdleProc /\ IdleNet /\ IdleIrq /\ IdleExt
SpecHeap == InitHeap /\ [][HeapNext]_vars

IdleBase == IdleCore /\ IdleProc /\ IdleNet /\ IdleIrq /\ IdleHeap

\* Up to MaxCalls system calls of one task.
InitSys == SysInit /\ IdleBase /\ IdleBoot /\ IdleTxq /\ IdleUq /\ IdleArp /\ IdlePcm /\ IdleMouse
SpecSys == InitSys /\ [][SysNext]_vars

\* One boot against every result of the memory, audio, storage, network
\* and filesystem initialization.
InitBoot == BootInit /\ IdleBase /\ IdleSys /\ IdleTxq /\ IdleUq /\ IdleArp /\ IdlePcm /\ IdleMouse
SpecBoot == InitBoot /\ [][BootNext]_vars

\* Up to MaxSubmits submissions on one queue of each driver, for two ring
\* sizes, from index 0 and from the index before the wrap.
InitTxq ==
    /\ \E kind \in Kinds, size \in {2, 4}, idx \in {0, IDX_MOD - 1} : TxqInit(kind, size, idx)
    /\ IdleBase /\ IdleSys /\ IdleBoot /\ IdleUq /\ IdleArp /\ IdlePcm /\ IdleMouse
SpecTxq == InitTxq /\ [][TxqNext]_vars

\* The consumers of the used rings under a device that publishes any
\* element: two ring sizes, the index before the wrap, counters at zero and
\* at their ceiling.
InitUq ==
    /\ \E kind \in {"net", "snd"}, size \in {2, 4}, idx \in {0, IDX_MOD - 1},
          count \in {0, U64_MAX - 1} : UqInit(kind, size, idx, count)
    /\ IdleBase /\ IdleSys /\ IdleBoot /\ IdleTxq /\ IdleArp /\ IdlePcm /\ IdleMouse
SpecUq == InitUq /\ [][UqNext]_vars

\* Up to MaxFrames frames of any kind against an empty, an almost full and a
\* full cache.
InitArp == ArpInit({0, 7, 8}) /\ IdleBase /\ IdleSys /\ IdleBoot /\ IdleTxq /\ IdleUq /\ IdlePcm /\ IdleMouse
SpecArp == InitArp /\ [][ArpNext]_vars

\* Up to MaxPcmSteps calls and device completions on a started driver with
\* one or two channels: all slots free, nine or ten slots holding full
\* packets, ten slots holding one frame each and a FIFO filled behind them.
PcmFills ==
    {<<0, 0, 0>>, <<TX_SLOT_COUNT - 1, TX_PACKET_FRAMES, 0>>,
     <<TX_SLOT_COUNT, TX_PACKET_FRAMES, 0>>, <<TX_SLOT_COUNT, 1, 8 * TX_PACKET_FRAMES>>}
InitPcm ==
    PcmInit(PcmFills, {1, 2}) /\ IdleBase /\ IdleSys /\ IdleBoot /\ IdleTxq /\ IdleUq /\ IdleArp
        /\ IdleMouse
SpecPcm == InitPcm /\ [][PcmNext]_vars

\* Up to MaxMouseBytes bytes with bit 3 set or clear, the main loop
\* taking events in between, on an event queue that holds one event.
InitMouse ==
    MouseInit /\ IdleBase /\ IdleSys /\ IdleBoot /\ IdleTxq /\ IdleUq /\ IdleArp /\ IdlePcm
SpecMouse == InitMouse /\ [][MouseNext]_vars

(***************************************************************************)
(* Filesystem properties.                                                  *)
(***************************************************************************)
\* C1: when write(name, data) has returned Ok, a read of the same name into
\* any buffer of at least len(data) bytes returns Ok(len(data)) and the first
\* len(data) bytes of the buffer are data.
C1_RoundTrip ==
    (lastOp.kind = "write" /\ lastOp.res = "Ok") =>
        \A buflen \in BufLens :
            buflen >= Len(lastOp.data) =>
                LET r == read(fs, disk, lastOp.path, buflen, NoFault)
                IN  /\ r.res = "Ok"
                    /\ r.len = Len(lastOp.data)
                    /\ SubSeq(r.out, 1, r.len) = lastOp.data

\* A full-sector write has returned Ok and the file reads back.
C1_Witness ==
    /\ lastOp.kind = "write"
    /\ lastOp.res = "Ok"
    /\ Len(lastOp.data) = MAX_FILE_BYTES
    /\ read(fs, disk, lastOp.path, MAX_FILE_BYTES, NoFault).res = "Ok"

\* C2: after every filesystem call, whatever it returned, the superblock and
\* the directory stored on the medium agree: next_free_sector >= data_start,
\* file_count is the number of directory entries marked used, and every used
\* entry ends inside the volume.
C2_DiskMetadataConsistent ==
    LET sb == SuperView(disk[SUPERBLOCK_SECTOR])
        slot(p) == DirView(disk[DIR_START_SECTOR + (p \div DirSectorSlots)],
                           p \div DirSectorSlots)[(p % DirSectorSlots) + 1]
        used == {i \in 1..MAX_FILES : slot((i - 1) * DIR_ENTRY_SLOTS).used = 1}
    IN  sb.magic = MAGIC =>
            /\ sb.next_free_sector >= DATA_START_SECTOR
            /\ sb.file_count = Cardinality(used)
            /\ \A i \in used :
                    slot((i - 1) * DIR_ENTRY_SLOTS + 1) + slot((i - 1) * DIR_ENTRY_SLOTS + 2)
                        <= sb.total_sectors

\* C7 as stated: every used entry, the zero-length ones included, has
\* start_sector >= data_start, start_sector + sector_count <= total_sectors
\* and size <= sector_count * SECTOR_SIZE.
C7_AllEntriesInDataArea ==
    \A i \in 1..MAX_FILES :
        fs.entries[i].used =>
            /\ fs.entries[i].start_sector >= DATA_START_SECTOR
            /\ fs.entries[i].start_sector + fs.entries[i].sector_count <= fs.total_sectors
            /\ fs.entries[i].size_bytes <= fs.entries[i].sector_count * SECTOR_SIZE

\* C7: every used entry has size <= sector_count * SECTOR_SIZE; one that owns
\* sectors has start_sector >= data_start and start_sector + sector_count <=
\* total_sectors; one that owns none (zero-length data) has start_sector = 0.
C7_EntryExtents ==
    \A i \in 1..MAX_FILES :
        fs.entries[i].used =>
            /\ fs.entries[i].size_bytes <= fs.entries[i].sector_count * SECTOR_SIZE
            /\ fs.entries[i].sector_count > 0 =>
                    /\ fs.entries[i].start_sector >= DATA_START_SECTOR
                    /\ fs.entries[i].start_sector + fs.entries[i].sector_count
                            <= fs.total_sectors
            /\ fs.entries[i].sector_count = 0 => fs.entries[i].start_sector = 0

\* A zero-length file and a file owning a sector are both in the directory.
C7_Witness ==
    /\ fs.mounted
    /\ \E i \in 1..MAX_FILES : fs.entries[i].used /\ fs.entries[i].sector_count = 0
    /\ \E i \in 1..MAX_FILES : fs.entries[i].used /\ fs.entries[i].sector_count > 0

\* C8: when no call has failed, remount returns Ok and list() and the bytes
\* read(name) returns for every listed file are what they were before it.
C8_RemountPreserves ==
    (lastOp.kind = "remount" /\ lastOp.clean) =>
        /\ lastOp.res = "Ok"
        /\ lastOp.listAfter = lastOp.listBefore
        /\ lastOp.readAfter = lastOp.readBefore

\* A remount of a volume holding two files, one of them non-empty.
C8_Witness ==
    /\ lastOp.kind = "remount"
    /\ lastOp.clean
    /\ Len(lastOp.listBefore) = MAX_FILES
    /\ \E i \in 1..Len(lastOp.readAfter) : lastOp.readAfter[i].len > 0

\* C9: a delete(name) that follows a successful delete(name) returns
\* NotFound and changes neither the DiskFs object nor any sector.
C9_SecondDelete ==
    [][(/\ lastOp.kind = "delete"
        /\ lastOp.res = "Ok"
        /\ lastOp'.kind = "delete"
        /\ normalize_name(lastOp'.path) = normalize_name(lastOp.path))
       => (lastOp'.res = "NotFound" /\ fs' = fs /\ disk' = disk)]_vars

\* The second of two deletes of the same name has returned.
C9_Witness ==
    lastOp.kind = "delete" /\ lastOp.again /\ lastOp.res = "NotFound"

(***************************************************************************)
(* Virtqueue properties.                                                   *)
(***************************************************************************)
\* C3: on the blk queue and the net TX queue, whenever a call has returned
\* after consuming a completion, avail.idx = used.idx and last_used_idx =
\* used.idx, earlier failed or timed-out requests notwithstanding.
C3_IndicesAgree ==
    (call.pc = "idle" /\ vqLast.consumed /= 0 /\ vq.kind \in {"blk", "net"}) =>
        (vq.avail_idx = vq.used_idx /\ vq.last_used_idx = vq.used_idx)

\* C4: the call that follows a timed-out call returns success when the device
\* has completed its request within the spin budget, and a success it returns
\* has consumed the completion of its own avail entry.
C4_ReadyAfterTimeout ==
    (call.pc = "idle" /\ vqLast.after_timeout) =>
        /\ vqLast.own_done => vqLast.res = "Ok"
        /\ vqLast.res = "Ok" => vqLast.consumed = vqLast.entry

(***************************************************************************)
(* SPSC ring properties.                                                   *)
(***************************************************************************)
\* C5: under every interleaving of interrupt-side pushes with the steps of
\* a main-loop pop, for the keyboard byte queue, the key-event queue and
\* the mouse queue: the items popped so far are the first of the pushed
\* items that were not dropped, in push order; every push was either
\* accepted or counted as dropped; and when the ring is drained the popped
\* items are all the accepted ones and delivered + dropped = pushes.
C5_PoppedAreAcceptedInOrder ==
    LET n == Len(qHist.popped)
    IN  /\ n <= Len(qHist.accepted)
        /\ qHist.popped = SubSeq(qHist.accepted, 1, n)
        /\ Len(qHist.accepted) + q.dropped = qHist.pushes
        /\ (popper.pc = "idle" /\ q.head = q.tail) =>
               /\ qHist.popped = qHist.accepted
               /\ n + q.dropped = qHist.pushes

\* A drained ring that wrapped around, dropped a push, and was pushed to
\* while a pop was in progress.
C5_Witness ==
    /\ popper.pc = "idle"
    /\ qHist.raced
    /\ q.head = q.tail
    /\ q.dropped > 0
    /\ Len(qHist.popped) > QUEUE_CAPACITY
    /\ qHist.pushes = MaxPushes
    /\ qHist.popped[1] /= qHist.popped[2]

(***************************************************************************)
(* Frame allocator properties.                                             *)
(***************************************************************************)
FrameInRegion(frame, region) ==
    /\ region.kind = "Usable"
    /\ region.start <= frame
    /\ frame + PAGE_SIZE <= region.end

\* C6: for every memory map of non-overlapping regions, each frame that
\* allocate_frame has returned lies entirely inside exactly one Usable
\* region, and no frame was returned by two calls.
C6_FramesUsableOnce ==
    \A i \in DOMAIN frames.returned :
        /\ Cardinality({k \in DOMAIN alloc.regions :
                           FrameInRegion(frames.returned[i], alloc.regions[k])}) = 1
        /\ \A j \in DOMAIN frames.returned :
               i /= j => frames.returned[i] /= frames.returned[j]

\* Frames were handed out from two regions, one of them starting off a
\* page boundary, with a non-usable region in the map, and the allocator
\* then ran out.
C6_Witness ==
    /\ Len(frames.returned) = MaxAllocs - 1
    /\ frames.calls = MaxAllocs
    /\ \E k \in DOMAIN alloc.regions : alloc.regions[k].kind /= "Usable"
    /\ \E k1, k2 \in DOMAIN alloc.regions :
           /\ k1 /= k2
           /\ alloc.regions[k1].start % PAGE_SIZE /= 0
           /\ \E i \in DOMAIN frames.returned :
                  FrameInRegion(frames.returned[i], alloc.regions[k1])
           /\ \E i \in DOMAIN frames.returned :
                  FrameInRegion(frames.returned[i], alloc.regions[k2])

\* The sectors of entry i of the in-memory directory.
Extent(i) ==
    fs.entries[i].start_sector
        .. (fs.entries[i].start_sector + fs.entries[i].sector_count - 1)

WithSectors == {i \in 1..MAX_FILES : fs.entries[i].used /\ fs.entries[i].sector_count > 0}

\* C27: the sector ranges of distinct used entries with sector_count > 0
\* are disjoint, and none of them contains the superblock sector or a
\* directory sector.
C27_ExtentsDisjoint ==
    /\ \A i, j \in WithSectors : i /= j => Extent(i) \cap Extent(j) = {}
    /\ \A i \in WithSectors :
           Extent(i) \cap (0..(DATA_START_SECTOR - 1)) = {}

\* Two files with data exist after a write that followed a delete: the data
\* area is full and the deleted file's sector was not handed out again.
C27_Witness ==
    /\ lastOp.kind = "write"
    /\ lastOp.res = "Ok"
    /\ Cardinality(WithSectors) = MAX_FILES
    /\ fs.next_free_sector = fs.total_sectors

\* The writes that fail and the state they start from, as an action: the
\* step is a write that returned an error.
FailedWriteStep == lastOp'.kind = "write" /\ lastOp'.res /= "Ok"

WriteLeftUnchanged ==
    /\ fs'.next_free_sector = fs.next_free_sector
    /\ fs'.file_count = fs.file_count
    /\ fs'.entries = fs.entries
    /\ ReadAll(fs', disk') = ReadAll(fs, disk)

\* C28: a write that returns an error leaves the filesystem unchanged: the
\* in-memory cursor and directory are as before the call and every
\* existing file reads back the contents it had.
C28_FailedWriteChangesNothing ==
    [][FailedWriteStep => WriteLeftUnchanged]_vars

\* The part of C28 that holds: a write rejected on a mounted volume without
\* any device error (too large, bad name, directory full, data area full)
\* changes nothing.
RejectedWriteChangesNothing ==
    [][(FailedWriteStep /\ fs.mounted /\ ~lastOp'.faulted) => WriteLeftUnchanged]_vars

\* A read of an existing file into a buffer that can hold it.
ReadOfExisting ==
    /\ lastOp.kind = "read"
    /\ lastOp.found
    /\ lastOp.buflen >= lastOp.entry.size_bytes

\* C29: on every volume image that mount accepts, read(name, out) with
\* len(out) >= size returns Ok(size) or a storage error; it never slices
\* out of bounds or with an inverted range.
C29_ReadNeverPanics ==
    ReadOfExisting =>
        \/ lastOp.res = "Ok" /\ lastOp.len = lastOp.entry.size_bytes
        \/ lastOp.res = "StorageIo"

\* The part of C29 that holds: the read is as stated whenever the entry has
\* no more sectors than its size needs, as every entry written by write.
ReadOfTightExtent ==
    (ReadOfExisting
        /\ lastOp.entry.sector_count <= DivCeil(lastOp.entry.size_bytes, SECTOR_SIZE))
    => (\/ lastOp.res = "Ok" /\ lastOp.len = lastOp.entry.size_bytes
        \/ lastOp.res = "StorageIo")

(***************************************************************************)
(* Driver initialization properties.                                       *)
(***************************************************************************)
InitFailedBeforeDriverOk ==
    /\ drv.initialized
    /\ drv.found
    /\ drv.init_res /= "Ok"
    /\ ~drv.driver_ok

\* C10: for blk, net and snd, when initialization failed after the device
\* was found and before DRIVER_OK was written, the device status register
\* has the FAILED bit set and the driver is not ready.
C10_FailedBitOnEveryFailure ==
    InitFailedBeforeDriverOk =>
        (HasBit(drv.status, VIRTIO_STATUS_FAILED) /\ ~drv.ready)

\* The events of the init that ran, by position.
DrvEvents == 1..Len(drv.events)

DriverOkWrittenBefore(i) ==
    \E j \in 1..(i - 1) :
        /\ drv.events[j].op = "status"
        /\ HasBit(drv.events[j].v, VIRTIO_STATUS_DRIVER_OK)

\* Positions of the handshake steps in the order the specification names.
StatusAt(i, value) == drv.events[i].op = "status" /\ drv.events[i].v = value

HandshakeRank(i) ==
    CASE StatusAt(i, 0) -> 0
      [] StatusAt(i, VIRTIO_STATUS_ACK) -> 1
      [] StatusAt(i, VIRTIO_STATUS_ACK + VIRTIO_STATUS_DRIVER) -> 2
      [] drv.events[i].op = "features" -> 3
      [] StatusAt(i, VIRTIO_STATUS_ACK + VIRTIO_STATUS_DRIVER + VIRTIO_STATUS_FEATURES_OK) -> 3
      [] drv.events[i].op = "queue" -> 4
      [] drv.events[i].op = "status" /\ HasBit(drv.events[i].v, VIRTIO_STATUS_DRIVER_OK) -> 5
      [] OTHER -> 6

\* The part of the lifecycle that holds: reset, acknowledge, driver,
\* features, queue setup and driver-ok are written in this order, and the
\* storage driver touches no queue before DRIVER_OK.
HandshakeInOrder ==
    /\ \A i, j \in DrvEvents :
           (i < j /\ HandshakeRank(i) < 6 /\ HandshakeRank(j) < 6)
               => HandshakeRank(i) <= HandshakeRank(j)
    /\ drv.kind = "blk" =>
           \A i \in DrvEvents : drv.events[i].op \notin {"avail", "notify"}

\* C24: in every virtio driver, no buffer is made available to the device
\* and no queue notify is issued before DRIVER_OK has been written to the
\* status register.
C24_NothingBeforeDriverOk ==
    \A i \in DrvEvents :
        drv.events[i].op \in {"avail", "notify"} => DriverOkWrittenBefore(i)

\* The net driver completed its init: the receive buffer was posted.
NetInitCompleted ==
    /\ drv.kind = "net"
    /\ drv.driver_ok
    /\ \E i \in DrvEvents : drv.events[i].op = "notify" /\ ~DriverOkWrittenBefore(i)

\* C25: for every queue that was set up, the size used for ring-index
\* arithmetic is a non-zero power of two, not above the size the device
\* published and not above the capacity of the static rings.
C25_QueueSizePowerOfTwo ==
    \A i \in 1..Len(drv.queues) :
        /\ drv.queues[i].size > 0
        /\ floor_pow2(drv.queues[i].size) = drv.queues[i].size
        /\ drv.queues[i].size <= drv.queues[i].max
        /\ drv.queues[i].size <= drv.queues[i].cap

\* The part of C25 that holds for all three drivers, and the whole of it
\* for the sound driver.
QueueSizeInBounds ==
    \A i \in 1..Len(drv.queues) :
        /\ drv.queues[i].size > 0
        /\ drv.queues[i].size <= drv.queues[i].max
        /\ drv.queues[i].size <= drv.queues[i].cap
        /\ drv.kind = "snd" => floor_pow2(drv.queues[i].size) = drv.queues[i].size

(***************************************************************************)
(* DHCP transaction properties.                                            *)
(***************************************************************************)
BecomesBound == ~net.dhcp_bound /\ net'.dhcp_bound

LeaseUnchanged ==
    /\ net'.ipv4 = net.ipv4
    /\ net'.netmask = net.netmask
    /\ net'.gateway = net.gateway
    /\ net'.dns = net.dns

\* C31: the interface becomes DHCP-bound only while the driver waits for
\* the ACK of a REQUEST it has sent, and nothing that arrives while it is
\* waiting for an OFFER changes ipv4, netmask, gateway or dns.
C31_BoundOnlyAfterRequest ==
    [][/\ BecomesBound => net.pc = "ack_wait"
       /\ net.pc = "offer_wait" => LeaseUnchanged]_vars

\* The part of C31 that holds: the interface becomes bound only inside a
\* transaction (its xid set, the driver in one of the two wait loops), and
\* outside a transaction no message changes the lease.
BoundOnlyInsideTransaction ==
    [][/\ BecomesBound => (net.pc \in {"offer_wait", "ack_wait"} /\ net.dhcp_xid /= 0)
       /\ (net.pc = "idle" /\ net.dhcp_xid = 0) => LeaseUnchanged]_vars

(***************************************************************************)
(* Pending records of ping and of the HTTP exchange.                       *)
(***************************************************************************)
PingReturned == net.pc = "idle" /\ netLast.op = "ping"

\* C32: whenever ping has returned, with success, a timeout or an ARP or
\* transmit error, pending_ping is inactive.
C32_PendingInactiveOnReturn ==
    PingReturned => ~net.pending_ping.active

\* The part of C32 that holds for ping: after a return from the wait loop
\* (a matching reply or the timeout) pending_ping is inactive.
PendingInactiveAfterWait ==
    (PingReturned /\ netLast.sent_request) => ~net.pending_ping.active

\* The same for the HTTP exchange: after the wait loop of
\* curl_http_roundtrip pending_http is cleared; after a failed send of the
\* request it is still active.
HttpClearedAfterWait ==
    (net.pc = "idle" /\ netLast.op = "curl" /\ netLast.res \in {"Ok", "IoTimeout"}
        /\ netLast.before.sent_request)
    => ~net.pending_http.active

(***************************************************************************)
(* The one-shot TCP client.                                                *)
(***************************************************************************)
\* The step is handle_tcp on a segment; g is the segment.
RxTcpStep == netLast'.op = "rx_tcp"

BecomesEstablished == ~net.pending_http.established /\ net'.pending_http.established

BecomesFinished == ~net.pending_http.finished /\ net'.pending_http.finished

\* The step put a segment with payload on the wire: the HTTP request.
SendsRequest ==
    /\ netLast'.op \in {"rx_tcp", "curl_request", "curl"}
    /\ netLast' /= netLast
    /\ \E i \in 1..Len(netLast'.sent) : netLast'.sent[i].len > 0

\* The step sent an ACK that covers the FIN of the segment it processed.
AcksFin ==
    \E i \in 1..Len(netLast'.sent) :
        /\ netLast'.sent[i].flags = {"ACK"}
        /\ netLast'.sent[i].ack =
               wrapping_add(wrapping_add(netLast'.g.seq, netLast'.g.len), 1)

EstablishedOnSynAck ==
    BecomesEstablished =>
        /\ RxTcpStep
        /\ {"SYN", "ACK"} \subseteq netLast'.g.flags
        /\ netLast'.g.ack = net.pending_http.seq_next

RequestOnce ==
    SendsRequest =>
        /\ net.pending_http.established
        /\ ~net.pending_http.sent_request
        /\ net'.pending_http.sent_request

\* C33: the connection becomes established only on a SYN|ACK whose
\* acknowledgement number is the client's next sequence number, the request
\* is sent once and only when established, and the connection becomes
\* finished only on a RST or after the peer's FIN has been acknowledged.
C33_TcpClientOrder ==
    [][/\ EstablishedOnSynAck
       /\ RequestOnce
       /\ BecomesFinished =>
              /\ RxTcpStep
              /\ "RST" \in netLast'.g.flags
                     \/ ("FIN" \in netLast'.g.flags /\ AcksFin)]_vars

\* The part of C33 that holds: the first two clauses, and the connection
\* becomes finished only in handle_tcp on a RST or a FIN of the peer, the
\* FIN only when established.
TcpClientOrderWeak ==
    [][/\ EstablishedOnSynAck
       /\ RequestOnce
       /\ BecomesFinished =>
              /\ RxTcpStep
              /\ netLast'.g.from_peer
              /\ "RST" \in netLast'.g.flags
                     \/ ("FIN" \in netLast'.g.flags /\ net.pending_http.established)]_vars

(***************************************************************************)
(* Used-ring properties.                                                   *)
(***************************************************************************)
RECURSIVE SumFrames(_, _)
SumFrames(u, slots) ==
    IF slots = {} THEN 0
    ELSE LET i == CHOOSE x \in slots : TRUE
         IN  u.tx_slot_frames[i] + SumFrames(u, slots \ {i})

\* The slots the elements of the last poll name, in or out of the table.
NamedSlots == {uq.last.elems[i].id \div TX_DESC_PER_SLOT : i \in 1..Len(uq.last.elems)}

Released == uq.last.busy \cap NamedSlots

\* C26: whatever (id, len) the device writes in the used ring, the frame
\* length poll_rx_once copies is at most the size of the RX buffer, every
\* ring index is inside the static rings, poll_tx_used releases exactly the
\* busy slots the ids name and nothing for any other id, and every counter
\* stays in its range and consistent with the slot table.
C26_UsedElementsHarmless ==
    /\ uq.last.op = "poll_rx_once" =>
           /\ uq.last.payload_len <= MAX_RX_FRAME
           /\ uq.last.payload_len <= uq.last.elems[1].len
           /\ \A i \in uq.last.used_slots \cup uq.last.avail_slots : i < MAX_QUEUE_SIZE
    /\ uq.last.op = "poll_tx_used" =>
           /\ \A i \in uq.last.used_slots : i < TX_QUEUE_SIZE
           /\ BusySlots(uq) = uq.last.busy \ NamedSlots
           /\ uq.pending_packets = uq.last.pending_packets - Cardinality(Released)
           /\ uq.completed_packets =
                  saturating_add_to(uq.last.completed_packets, Cardinality(Released), U64_MAX)
           /\ uq.pending_hw_frames <= uq.last.pending_hw_frames
           /\ Released = {} =>
                  /\ uq.pending_hw_frames = uq.last.pending_hw_frames
                  /\ uq.completed_frames = uq.last.completed_frames
    /\ uq.pending_packets = Cardinality(BusySlots(uq))
    /\ uq.pending_hw_frames = SumFrames(uq, BusySlots(uq))
    /\ \A i \in TxSlots : ~uq.tx_slot_busy[i] => uq.tx_slot_frames[i] = 0
    /\ uq.rx_frames \in 0..U64_MAX
    /\ uq.completed_packets \in 0..U64_MAX
    /\ uq.completed_frames \in 0..U64_MAX
    /\ uq.dropped_packets \in 0..U64_MAX

\* A poll of the sound TX queue consumed an element that names no busy slot
\* (an id beyond the table) and one that names a busy slot.
C26_Witness ==
    /\ uq.last.op = "poll_tx_used"
    /\ Released /= {}
    /\ \E i \in 1..Len(uq.last.elems) : uq.last.elems[i].id = U32_MAX
    /\ BusySlots(uq) /= {}

\* A poll of the net RX queue consumed an element with the largest length.
NetPolledHugeLen ==
    /\ uq.last.op = "poll_rx_once"
    /\ uq.last.elems[1].len = U32_MAX
    /\ uq.last.payload_len = MAX_RX_FRAME

(***************************************************************************)
(* Scheduler properties.                                                   *)
(***************************************************************************)
WasDue(i) ==
    procLast.before[i].state = "Sleeping" /\ procLast.before[i].until_tick <= procLast.now

WasNotDue(i) ==
    procLast.before[i].state = "Sleeping" /\ procLast.before[i].until_tick > procLast.now

\* C11 as stated: when run_once(now) has returned, no task that was
\* Sleeping with until_tick <= now is Sleeping, and every task that was
\* Sleeping with until_tick > now is as it was.
C11_NoDueTaskSleeping ==
    procLast.calls > 0 =>
        \A i \in Slots :
            /\ WasDue(i) => sched.tasks[i].state /= "Sleeping"
            /\ WasNotDue(i) => sched.tasks[i] = procLast.before[i]

\* C11 amended: wake_sleeping(now) makes Ready every task that was
\* Sleeping with until_tick <= now and leaves every task with
\* until_tick > now as it was; when run_once returns, a task that was due
\* is Sleeping only if it is the task this call ran.
C11_DueTasksPromoted ==
    procLast.calls > 0 =>
        \A i \in Slots :
            /\ WasDue(i) =>
                  /\ procLast.woken[i].state = "Ready"
                  /\ sched.tasks[i].state = "Sleeping" => procLast.ran = i
            /\ WasNotDue(i) =>
                  /\ procLast.woken[i] = procLast.before[i]
                  /\ sched.tasks[i] = procLast.before[i]

\* One call promoted a task whose until_tick was exactly its tick and ran
\* it, and left another task asleep because its tick had not come.
C11_Witness ==
    /\ procLast.calls > 0
    /\ \E i \in Slots :
           /\ WasDue(i)
           /\ procLast.before[i].until_tick = procLast.now
           /\ procLast.ran = i
    /\ \E i \in Slots : WasNotDue(i) /\ sched.tasks[i].state = "Sleeping"

\* C12: a run_once call changes at most one task, the one it ran; that
\* task was Ready after the sleepers were promoted and is the first Ready
\* one in cyclic slot order from the cursor; when no task ran none was
\* Ready; a task that was Exited is unchanged; and no task has been Ready
\* and passed over in MAX_TASKS consecutive calls.
C12_RoundRobin ==
    procLast.calls > 0 =>
        /\ \A i \in Slots : i /= procLast.ran => sched.tasks[i] = procLast.woken[i]
        /\ procLast.ran = -1 => \A i \in Slots : procLast.woken[i].state /= "Ready"
        /\ procLast.ran /= -1 =>
              \E k \in Slots :
                  /\ (procLast.cursor + k) % MAX_TASKS = procLast.ran
                  /\ procLast.woken[procLast.ran].state = "Ready"
                  /\ \A j \in 0..(k - 1) :
                         procLast.woken[(procLast.cursor + j) % MAX_TASKS].state /= "Ready"
        /\ \A i \in Slots :
              procLast.before[i].state = "Exited" => sched.tasks[i] = procLast.before[i]
        /\ \A i \in Slots : procLast.waited[i] < MAX_TASKS

\* The init task has exited, a call ran the shell past it, and another
\* call found a task Ready and ran the other one first.
C12_Witness ==
    /\ sched.tasks[0].state = "Exited"
    /\ procLast.before[0].state = "Exited"
    /\ procLast.ran = 1
    /\ procLast.cursor /= 1


(***************************************************************************)
(* Network properties.                                                     *)
(***************************************************************************)
Bit(v, k) == (v \div (2 ^ k)) % 2

\* Every address bit the netmask selects is the same in both addresses.
SameNetwork(a, b, mask) ==
    \A i \in 1..4 : \A k \in 0..7 :
        Bit(mask[i], k) = 1 => Bit(a[i], k) = Bit(b[i], k)

\* C13: the next hop is the destination itself when the destination is the
\* own address, lies in the own subnet, or no gateway is configured, and the
\* gateway otherwise; exactly one of the two route counters goes up by one,
\* the direct one in the first case and the gateway one in the second.
C13_NextHop ==
    netLast.op = "route" =>
        LET b == netLast.before
            direct == \/ netLast.dst_ip = b.ipv4
                      \/ SameNetwork(b.ipv4, netLast.dst_ip, b.netmask)
                      \/ b.gateway = IP_ZERO
        IN  /\ netLast.hop = (IF direct THEN netLast.dst_ip ELSE b.gateway)
            /\ net.route_direct = b.route_direct + (IF direct THEN 1 ELSE 0)
            /\ net.route_gateway = b.route_gateway + (IF direct THEN 0 ELSE 1)

\* Both cases have happened: a destination outside a 28-bit subnet that
\* differs from the own address in the last octet only went to the gateway
\* after an earlier destination went direct.
C13_Witness ==
    /\ netLast.op = "route"
    /\ netLast.before.netmask = <<255, 255, 255, 240>>
    /\ netLast.dst_ip = <<10, 0, 2, 17>>
    /\ netLast.before.ipv4 = LOCAL_IP
    /\ netLast.hop = LOCAL_GATEWAY
    /\ net.route_gateway = 1
    /\ net.route_direct = 1


\* C14: every valid UDP datagram received for us with destination port 7777
\* makes the stack send exactly one UDP datagram, to the sender's address
\* and source port, with the same payload.
C14_EchoForEveryDatagram ==
    (/\ netLast.op = "rx_udp"
     /\ ForUs(net, netLast.d)
     /\ netLast.d.dst_port = UDP_ECHO_PORT)
        => /\ Len(netLast.sent) = 1
           /\ netLast.sent[1].dst_ip = netLast.d.src_ip
           /\ netLast.sent[1].dst_port = netLast.d.src_port
           /\ netLast.sent[1].data = netLast.d.data

\* The echo is sent as stated for every payload that, with its headers,
\* fits one TX frame, when the device takes the frame.
EchoWhenItFits ==
    (/\ netLast.op = "rx_udp"
     /\ ForUs(net, netLast.d)
     /\ netLast.d.dst_port = UDP_ECHO_PORT
     /\ netLast.d.data.len + 42 <= MAX_TX_FRAME
     /\ netLast.tx_done)
        => netLast.sent = <<[src_ip |-> net.ipv4, src_port |-> UDP_ECHO_PORT,
                             dst_ip |-> netLast.d.src_ip,
                             dst_port |-> netLast.d.src_port,
                             data |-> netLast.d.data]>>

\* What udp_recv hands over for a stored datagram d and a buffer of dst_len
\* bytes.
Delivered(d, dst_len) ==
    [src_ip |-> d.src_ip, src_port |-> d.src_port, dst_port |-> d.dst_port,
     data |-> Take(d.data, Min(UDP_MAILBOX_CAP, dst_len))]

\* C15 as stated: udp_recv returns the datagram received last (its
\* addresses and ports, and its bytes as far as they were copied).
C15_MostRecentDatagram ==
    (netLast.op = "udp_recv" /\ netLast.res = "Ok" /\ netLast.latest /= NoDatagram)
        => /\ netLast.meta /= NoDatagram
           /\ netLast.meta.src_ip = netLast.latest.src_ip
           /\ netLast.meta.src_port = netLast.latest.src_port
           /\ netLast.meta.dst_port = netLast.latest.dst_port
           /\ netLast.meta.data = Take(netLast.latest.data, netLast.meta.data.len)

\* C15: the mailbox is one slot.  Every valid datagram for us other than a
\* DHCP server-to-client datagram (port 67 to 68) replaces what was stored;
\* udp_recv returns the last such datagram received since the previous
\* udp_recv, cut to the mailbox capacity and to the caller's buffer, and
\* empties the slot; with no such datagram in between it returns none.
C15_MailboxOneSlot ==
    /\ net.udp_mailbox.valid <=> netHist.unread /= NoDatagram
    /\ net.udp_mailbox.valid =>
           /\ net.udp_mailbox.src_ip = netHist.unread.src_ip
           /\ net.udp_mailbox.src_port = netHist.unread.src_port
           /\ net.udp_mailbox.dst_port = netHist.unread.dst_port
           /\ net.udp_mailbox.data = Take(netHist.unread.data, UDP_MAILBOX_CAP)
    /\ (netLast.op = "udp_recv" /\ netLast.res = "Ok") =>
           /\ ~net.udp_mailbox.valid
           /\ netLast.meta = IF netLast.unread = NoDatagram THEN NoDatagram
                             ELSE Delivered(netLast.unread, netLast.dst_len)

\* udp_recv returned the second of two stored datagrams, shortened to the
\* mailbox capacity, although a DHCP datagram arrived after it.
C15_Witness ==
    /\ netLast.op = "udp_recv"
    /\ netLast.stored = 2
    /\ netLast.unread /= NoDatagram
    /\ netLast.latest /= netLast.unread
    /\ netLast.unread.data.len > UDP_MAILBOX_CAP
    /\ netLast.meta /= NoDatagram
    /\ netLast.meta.data = Take(netLast.unread.data, UDP_MAILBOX_CAP)
    /\ ~net.udp_mailbox.valid


\* C16: whenever DHCP configuration has failed (no OFFER within 400 ticks,
\* no ACK within 400 ticks, or a send error), the interface uses the static
\* lease: address, netmask and gateway are the static ones, the
\* configuration source is Static and dhcp_bound is false.
C16_StaticLeaseAfterFailure ==
    netHist.dhcp \in {"NoOffer", "NoAck", "SendError"} =>
        /\ net.ipv4 = LOCAL_IP
        /\ net.netmask = LOCAL_NETMASK
        /\ net.gateway = LOCAL_GATEWAY
        /\ net.config_source = "Static"
        /\ ~net.dhcp_bound

\* The configuration source is Static after every failure, and a failure
\* during which no acknowledgement of our transaction was processed leaves
\* the static lease in place.
StaticSourceAfterFailure ==
    netHist.dhcp \in {"NoOffer", "NoAck", "SendError"} =>
        /\ net.config_source = "Static"
        /\ ~net.dhcp_bound => /\ net.ipv4 = LOCAL_IP
                              /\ net.netmask = LOCAL_NETMASK
                              /\ net.gateway = LOCAL_GATEWAY


\* C17: on an established connection the response buffer always holds a
\* prefix of the peer's in-order byte stream: the bytes the peer sent under
\* the sequence numbers that follow its SYN, without a gap.
C17_BufferIsStreamPrefix ==
    (net.pending_http.active /\ net.pending_http.established) =>
        \/ net.pending_http.response = <<>>
        \/ net.pending_http.response =
               <<[seq |-> netHist.tcp_base, len |-> net.pending_http.response_len]>>

\* The segment rule by itself: the payload of a data segment on an
\* established connection is appended only if seq = ack_next, then up to
\* the buffer cap, and ack_next advances by the whole payload length
\* (wrapping); a data segment is acknowledged whenever the device takes the
\* frame.
SegmentAcceptRule ==
    (/\ netLast.op = "rx_tcp"
     /\ netLast.before.established
     /\ netLast.g.from_peer
     /\ netLast.g.len > 0
     /\ "RST" \notin netLast.g.flags)
        => LET b == netLast.before
               h == net.pending_http
               fin == IF "FIN" \in netLast.g.flags THEN 1 ELSE 0
               in_order == netLast.g.seq = b.ack_next
           IN  /\ h.response_len =
                      (IF in_order
                       THEN Min(b.response_len + netLast.g.len, CURL_HTTP_BUF)
                       ELSE b.response_len)
               /\ ~in_order => h.response = b.response
               /\ h.ack_next =
                      (b.ack_next + (IF in_order THEN netLast.g.len ELSE 0) + fin) % SEQ_MOD
               /\ netLast.tx_done => /\ Len(netLast.sent) = 1 + fin
                                     /\ netLast.sent[Len(netLast.sent)].ack = h.ack_next
                                     /\ netLast.sent[1].flags = {"ACK"}


\* C18 as stated: a ping that returns Ok returns a non-zero elapsed tick
\* count and leaves no ping pending.
C18_NonZeroElapsed ==
    (netLast.op = "ping" /\ netLast.res = "Ok") =>
        /\ netLast.elapsed > 0
        /\ ~net.pending_ping.active

\* C18: once the echo request is out, ping returns Ok exactly when the
\* echo reply that matches the pending ping (identifier, sequence number
\* and target) is processed before the 300-tick budget is used up; it then
\* returns the ticks from the request to the reply, which may be zero, and
\* no ping is pending.  Otherwise it returns IoTimeout after at least 300
\* ticks, and no ping is pending.
C18_PingResult ==
    (netLast.op = "ping" /\ netLast.sent_request /\ net.pc = "idle") =>
        /\ ~net.pending_ping.active
        /\ netLast.res \in {"Ok", "IoTimeout"}
        /\ netLast.res = "Ok" <=> netHist.ping_matched
        /\ netLast.res = "Ok" =>
               /\ netLast.elapsed = netHist.ping_match_tick - netLast.start
               /\ netLast.elapsed >= 0
        /\ netLast.res = "IoTimeout" => netLast.elapsed >= PING_TIMEOUT_TICKS

\* The second ping got its reply in the tick in which the request was sent.
C18_Witness ==
    /\ netLast.op = "ping"
    /\ netLast.res = "Ok"
    /\ netLast.elapsed = 0
    /\ net.pending_ping.seq = 2
    /\ netHist.ping_matched
    /\ ~net.pending_ping.active
    /\ net.pc = "idle"


C20_CursorInHeap ==
    /\ heap.heap_start <= heap.next
    /\ heap.next <= heap.heap_end

\* The live count returned to zero a second time, after an allocation had
\* failed, and the cursor is back at the start of the heap.
C20_Witness ==
    /\ heap.initialized
    /\ heapLast.op = "dealloc"
    /\ heapLast.failed
    /\ heapLast.resets = 2
    /\ heap.allocations = 0
    /\ heap.next = HEAP_START


\* C30: when every deallocation matches one earlier live allocation, the
\* address ranges of the live allocations of non-zero size are pairwise
\* disjoint and lie inside [heap_start, heap_end), also after the cursor
\* has been reset.
C30_LiveRangesDisjoint ==
    LET live == heapLast.live
        Real == {i \in 1..Len(live) : live[i].size > 0}
    IN  /\ \A i \in Real :
               /\ heap.heap_start <= live[i].ptr
               /\ live[i].ptr + live[i].size <= heap.heap_end
        /\ \A i, j \in Real :
               i /= j => \/ live[i].ptr + live[i].size <= live[j].ptr
                         \/ live[j].ptr + live[j].size <= live[i].ptr
        /\ heap.allocations = Cardinality(Real)

\* Two allocations of non-zero size are live next to a zero-size one, after
\* the cursor has been reset and an allocation has failed.
C30_Witness ==
    /\ heapLast.resets >= 1
    /\ heapLast.failed
    /\ heap.allocations = 2
    /\ Len(heapLast.live) = MaxLive
    /\ \E i \in 1..Len(heapLast.live) : heapLast.live[i].size = 0
    /\ heap.next > HEAP_START


(***************************************************************************)
(* System call properties.                                                 *)
(***************************************************************************)
\* C21: the numbers the kernel dispatches are exactly WRITE=1, READ=2,
\* EXIT=3, YIELD=4, SLEEP=5, SOCKET=6, SENDTO=7 and RECVFROM=8, the set the
\* userland ABI declares; a call with any other number returns a negative
\* error code and leaves the task's scheduling state as it was.
C21_ClosedSyscallSet ==
    LET Declared == {supported_syscalls[i] : i \in 1..Len(supported_syscalls)}
        Dispatched ==
            {n \in SyscallNumbers :
                \E c \in SyscallCalls :
                    /\ c.number = n
                    /\ LET r == dispatch_syscall(SyscallStatsNew, SysTaskNew, 0, n,
                                                 c.arg0, c.arg1, c.arg2, c.env)
                       IN  r.rc /= -ENOSYS}
    IN  /\ supported_syscalls = <<1, 2, 3, 4, 5, 6, 7, 8>>
        /\ Dispatched = Declared
        /\ \A n \in SyscallNumbers : (name(n) /= "unknown") <=> (n \in Declared)
        /\ (sysLast.called /\ sysLast.number \notin Declared) =>
               /\ sysLast.rc < 0
               /\ sys.task = sysLast.before

\* A task that had gone to sleep called a number outside the set.
C21_Witness ==
    /\ sysLast.called
    /\ sysLast.number = SYS_RECVFROM + 1
    /\ sysLast.before.state = "Sleeping"
    /\ sysLast.rc = -ENOSYS
    /\ sys.stats.errors = sysLast.errors + 1


(***************************************************************************)
(* Boot properties.                                                        *)
(***************************************************************************)
\* C22: when the memory initialization fails the kernel halts with no
\* later subsystem initialized and never enters the main loop; when the
\* storage or the network initialization fails the boot goes on to the
\* main loop with that feature reported not ready, and the filesystem is
\* on the in-memory backend when storage failed.
C22_BootFailures ==
    LET failed(d) == d.initialized /\ d.init_res /= "Ok"
    IN  /\ boot.mem \notin {"none", "Ok"} =>
               /\ boot.pc = "halt"
               /\ boot.log = <<"serial", "gfx", "mem">>
               /\ boot.loops = 0
               /\ ~boot.storage.initialized /\ ~boot.net.initialized
               /\ boot.fs = "none"
        /\ boot.pc = "halt" => boot.mem \notin {"none", "Ok"}
        /\ failed(boot.storage) =>
               /\ ~boot.storage.ready
               /\ boot.pc \in {"net", "fs", "tasks", "run_loop"}
               /\ boot.fs \in {"none", "ramfs"}
               /\ boot.pc \in {"tasks", "run_loop"} => boot.fs = "ramfs"
        /\ failed(boot.net) =>
               /\ ~boot.net.ready
               /\ boot.pc \in {"fs", "tasks", "run_loop"}
        /\ boot.pc = "run_loop" =>
               boot.log = <<"serial", "gfx", "mem", "gfx_backbuffer", "keyboard", "interrupts",
                            "audio", "storage", "net", "fs", "shell", "proc">>

\* The main loop turns after both the storage and the network
\* initialization failed, the network one after DRIVER_OK.
C22_Witness ==
    /\ boot.pc = "run_loop"
    /\ boot.loops = MaxLoops
    /\ boot.storage.init_res = "AddressTranslationFailed"
    /\ boot.net.init_res = "IoTimeout"
    /\ boot.net.driver_ok
    /\ boot.fs = "ramfs"


(***************************************************************************)
(* Virtqueue submission properties.                                        *)
(***************************************************************************)
\* C23: on every submit path, once avail.idx has been incremented all the
\* descriptors of the chain and the ring entry at the old avail.idx % size
\* have been written and a fence came after the last of those writes; the
\* notify register is written only after the increment; so the device
\* never fetches a chain that is not complete.
C23_SubmitOrder ==
    /\ txq.idx_done =>
           /\ Chain(txq.kind, txq.head) \subseteq txq.written
           /\ txq.ring_slot = ((txq.avail_idx + IDX_MOD - 1) % IDX_MOD) % txq.size
           /\ txq.entries[txq.ring_slot] = txq.head
           /\ txq.fenced_at_idx
    /\ txq.notified => txq.idx_done
    /\ txq.dev_ok

\* The sound driver has notified the device of a chain in its last slot,
\* published at the wrap of avail.idx, and the device has fetched it.
C23_Witness ==
    /\ txq.kind = "snd"
    /\ txq.notified
    /\ txq.head = (TX_SLOT_COUNT - 1) * TX_DESC_PER_SLOT
    /\ txq.avail_idx = 0
    /\ txq.dev_idx = txq.avail_idx
    /\ txq.pc = 0

(***************************************************************************)
(* ARP cache properties.                                                   *)
(***************************************************************************)
CacheChanged == arpc.cache /= arpc.last.before

\* The frame carries an IPv4 packet for our address, an ARP packet whose
\* target is our address, or an ARP reply.
AddressedToUs(f) ==
    \/ f.ethertype = "ipv4" /\ f.to_ip = LOCAL_IP
    \/ f.ethertype = "arp" /\ f.to_ip = LOCAL_IP
    \/ f.ethertype = "arp" /\ f.oper = 2

\* C34: an ARP cache entry is created or updated only from traffic that is
\* addressed to us (an IPv4 packet whose destination is our address, an ARP
\* packet whose target is our address) or from an ARP reply; a frame for
\* another host never modifies the cache.
C34_LearnOnlyFromOurTraffic == CacheChanged => AddressedToUs(arpc.last.frame)

\* What the code does keep: the cache changes only on a well-formed ARP or
\* IPv4 packet whose Ethernet destination is our MAC or the broadcast MAC
\* and whose sender address and MAC are not zero.
CacheChangesOnlyOnAcceptedFrames ==
    CacheChanged =>
        LET f == arpc.last.frame
        IN  /\ f.eth_dst \in {"self", "broadcast"}
            /\ f.ethertype \in {"arp", "ipv4"}
            /\ f.ok
            /\ f.ip /= IP_ZERO
            /\ f.mac /= MAC_ZERO

ValidSlots(cache) == {i \in ArpSlots : cache[i].valid}

\* The frame reached learn_arp with an address and a MAC it accepts.
Learned ==
    /\ arpc.last.frame.eth_dst /= "other"
    /\ arpc.last.frame.ethertype \in {"arp", "ipv4"}
    /\ arpc.last.frame.ok
    /\ arpc.last.frame.ip /= IP_ZERO
    /\ arpc.last.frame.mac /= MAC_ZERO

\* C35: the cache holds at most eight valid entries and never two valid
\* entries for one address; learning a known address updates its entry in
\* place, a new address fills the first free slot, and with all eight slots
\* valid the entry at index 0 is replaced and the other seven are unchanged.
C35_CacheShape ==
    /\ Cardinality(ValidSlots(arpc.cache)) <= ARP_ENTRIES
    /\ \A i, j \in ValidSlots(arpc.cache) :
           arpc.cache[i].ip = arpc.cache[j].ip => i = j
    /\ Learned =>
           LET before == arpc.last.before
               f == arpc.last.frame
               entry == [valid |-> TRUE, ip |-> f.ip, mac |-> f.mac]
               known == {i \in ValidSlots(before) : before[i].ip = f.ip}
               free == ArpSlots \ ValidSlots(before)
           IN  IF known /= {}
               THEN \E i \in known :
                        /\ arpc.cache[i] = entry
                        /\ \A j \in ArpSlots \ {i} : arpc.cache[j] = before[j]
               ELSE IF free /= {}
               THEN /\ arpc.cache[FirstSlot(free)] = entry
                    /\ \A j \in ArpSlots \ {FirstSlot(free)} : arpc.cache[j] = before[j]
               ELSE /\ arpc.cache[1] = entry
                    /\ \A j \in 2..ARP_ENTRIES : arpc.cache[j] = before[j]

\* All eight slots were valid and a new address was learned: it took index 0.
C35_Witness ==
    /\ Learned
    /\ ValidSlots(arpc.last.before) = ArpSlots
    /\ \A i \in ArpSlots : arpc.last.before[i].ip /= arpc.last.frame.ip
    /\ arpc.cache[1].ip = arpc.last.frame.ip
    /\ arpc.cache[1] /= arpc.last.before[1]

\* A known address was learned with another MAC.
UpdatedInPlace ==
    /\ Learned
    /\ \E i \in ValidSlots(arpc.last.before) :
           /\ arpc.last.before[i].ip = arpc.last.frame.ip
           /\ arpc.last.before[i].mac /= arpc.last.frame.mac
           /\ arpc.cache[i].mac = arpc.last.frame.mac

(***************************************************************************)
(* Sound playback properties.                                              *)
(***************************************************************************)
\* C36: after any sequence of PCM submit, poll, start/stop and runtime-metric
\* reset, pending_packets equals the number of busy TX slots and
\* pending_hw_frames equals the sum of the frame counts of the busy slots.
C36_PendingMatchesSlots ==
    /\ pcm.pending_packets = Cardinality(BusySlots(pcm))
    /\ pcm.pending_hw_frames = SumFrames(pcm, BusySlots(pcm))

\* The same without reset_runtime_metrics on a driver that has busy slots.
PendingMatchesSlotsWithoutReset == ~pcm.reset_busy => C36_PendingMatchesSlots

\* Between calls a frame waits in the FIFO only behind a full slot table.
FifoOnlyBehindFullTable ==
    pcm.pcm_fifo_samples > 0 /\ pcm.started => BusySlots(pcm) = TxSlots

Trimmed == pcm.trim.called /\ pcm.trim.total_before > PCM_FIFO_HIGH_WATER_FRAMES

\* C37: whenever the total of buffered frames (FIFO plus pending hardware
\* frames) exceeds HIGH_WATER, the oldest FIFO samples are dropped so that
\* the total returns to TARGET, and the dropped-frames counter increases by
\* exactly the number of frames dropped.
C37_TrimReturnsToTarget ==
    Trimmed =>
        /\ pcm.trim.total_after = PCM_FIFO_TARGET_FRAMES
        /\ pcm.trim.dropped_after - pcm.trim.dropped_before =
               pcm.trim.fifo_before - pcm.trim.fifo_after

\* What trim_fifo_if_needed does keep: it drops min(total - TARGET, FIFO
\* frames), so the total returns to TARGET or, when the pending hardware
\* frames alone exceed TARGET, the FIFO is emptied; the counter moves by
\* the number of frames dropped; at or below HIGH_WATER nothing is dropped.
TrimDropsWhatItCan ==
    pcm.trim.called =>
        LET t == pcm.trim
            hw == t.total_before - t.fifo_before
        IN  /\ t.dropped_after - t.dropped_before = t.fifo_before - t.fifo_after
            /\ t.total_before > PCM_FIFO_HIGH_WATER_FRAMES =>
                   /\ t.total_after = Max(PCM_FIFO_TARGET_FRAMES, hw)
                   /\ hw > PCM_FIFO_TARGET_FRAMES => t.fifo_after = 0
            /\ t.total_before <= PCM_FIFO_HIGH_WATER_FRAMES =>
                   t.fifo_after = t.fifo_before

\* A trim above HIGH_WATER that did bring the total back to TARGET.
TrimToTarget == Trimmed /\ pcm.trim.total_after = PCM_FIFO_TARGET_FRAMES

(***************************************************************************)
(* Scheduler liveness.                                                     *)
(***************************************************************************)
InitTask == sched.tasks[0]
InitExited == InitTask.state = "Exited" /\ InitTask.exit_code = 0

\* C38: if the tick counter keeps advancing and run_once keeps being called,
\* the init task eventually reaches Exited with code 0, and from then on it
\* is never run again (it stays Exited with code 0 and no pass runs slot 0).
C38_InitExits ==
    /\ <>InitExited
    /\ [][InitTask.state = "Exited" =>
              /\ sched'.tasks[0] = sched.tasks[0]
              /\ procLast'.ran /= 0
              /\ InitExited]_vars

\* The init task has exited with code 0 and a later pass ran the shell.
C38_Witness ==
    /\ InitExited
    /\ procLast.before[0].state = "Exited"
    /\ procLast.ran = 1

(***************************************************************************)
(* Mouse assembler properties.                                             *)
(***************************************************************************)
\* The last call was handle_data_byte at packet position 0 with a byte
\* whose bit 3 is clear.
BadSyncByte ==
    /\ mouse.last.op = "byte"
    /\ mouse.last.before.packet_index = 0
    /\ SyncBit(mouse.last.byte) = 0

\* C39: a byte that arrives at packet position 0 with bit 3 clear is
\* discarded: it increments bad_sync and the position stays 0; after any
\* sequence of bytes, bytes received = 3 * packets decoded + bad_sync + the
\* current position, and packets decoded = events enqueued + events
\* dropped.
C39_AssemblerCounts ==
    /\ BadSyncByte =>
           mouse.m = [mouse.last.before EXCEPT !.bytes_rx = @ + 1, !.bad_sync = @ + 1]
    /\ mouse.m.packet_index \in 0..2
    /\ mouse.m.bytes_rx = 3 * mouse.m.packets_rx + mouse.m.bad_sync + mouse.m.packet_index
    /\ mouse.m.packets_rx = mouse.m.enqueued + mouse.m.events_dropped

\* A byte without bit 3 was discarded at position 0 after a packet had been
\* enqueued and another one dropped on the full queue.
C39_Witness ==
    /\ BadSyncByte
    /\ mouse.m.enqueued > 0
    /\ mouse.m.events_dropped > 0
    /\ mouse.m.bad_sync > 0

(***************************************************************************)
(* DHCP dispatch properties.                                               *)
(***************************************************************************)
\* Datagrams from port 67 to port 68 with any contents: the DHCP messages
\* of the transaction model, and payloads that are no DHCP message at all,
\* empty, short and longer than the mailbox.
DhcpPortDatagrams ==
    {d \in DhcpFrames :
        d.src_port = UDP_DHCP_SERVER_PORT /\ d.dst_port = UDP_DHCP_CLIENT_PORT}
    \cup {Datagram(src_ip, dst_ip, UDP_DHCP_SERVER_PORT, UDP_DHCP_CLIENT_PORT, data, TRUE) :
            src_ip \in {LOCAL_GATEWAY, <<1, 2, 3, 4>>}, dst_ip \in {LOCAL_IP, IP_BROADCAST},
            data \in UdpPayloads}

\* C40: a UDP datagram from source port 67 to destination port 68 is handed
\* to the DHCP state machine; it never modifies the UDP mailbox or the
\* last-datagram preview and is never echoed, whatever its contents.
C40_DhcpDatagramsBypassMailbox ==
    \A d \in DhcpPortDatagrams, tx_done \in BOOLEAN :
        LET r == handle_udp(net, d, tx_done)
        IN  /\ r.n = handle_dhcp_message(net, d.src_ip, d.data)
            /\ r.n.udp_mailbox = net.udp_mailbox
            /\ r.n.last_udp = net.last_udp
            /\ r.sent = <<>>
            /\ r.res = "Ok"

\* The interface was bound by an ACK from port 67 while the mailbox and the
\* preview hold the datagram a peer sent from port 9000.
C40_Witness ==
    /\ net.dhcp_bound
    /\ net.config_source = "Dhcp"
    /\ net.udp_mailbox.valid /\ net.udp_mailbox.src_port = 9000
    /\ net.last_udp.valid /\ net.last_udp.src_port = 9000

\* The same seen on the steps of the mailbox specification: a received
\* datagram from port 67 to port 68 leaves the mailbox and the preview as
\* they were and nothing is transmitted.
DhcpDatagramStepLeavesMailbox ==
    [][(/\ netLast'.op = "rx_udp"
        /\ netLast'.d.src_port = UDP_DHCP_SERVER_PORT
        /\ netLast'.d.dst_port = UDP_DHCP_CLIENT_PORT)
          => /\ net'.udp_mailbox = net.udp_mailbox
             /\ net'.last_udp = net.last_udp
             /\ netLast'.sent = <<>>]_vars

====
